---- MODULE Spec2Model ----
(***************************************************************************)
(* Feedback Pulse: the search agent (search-agent.js), the AI enrichment   *)
(* agent (ai-agent.js) and the upload handler of the worker (index.js).    *)
(*                                                                         *)
(* JavaScript strings whose characters the code inspects (query text,      *)
(* feedback text) are sequences of one-character strings; strings that    *)
(* the code only passes around (labels, column names) are TLA+ strings.    *)
(* Other JavaScript values are tagged records, see Null, Num, Str, List.   *)
(***************************************************************************)
EXTENDS Integers, Sequences, FiniteSets, TLC

VARIABLES
  searchPc,     \* position of SearchAgent.processQuery / a direct generateSQL call
  userQuery,    \* the query text given to processQuery
  intent,       \* the intent handed to generateSQL
  sqlQuery,     \* the { sql, params } object generateSQL returned
  results,      \* the rows executeQuery returned
  summaryRequests, \* the requests the SearchAgent has sent to ai.run, in order
  summaryCall,  \* the ai.run call of formatResponse
  storeStatements, \* the statements processQuery has run on the store, in order
  searchResult, \* the object processQuery returned
  anPc,         \* position of FeedbackAnalysisAgent.analyzeFeedback
  feedbackText, \* the text given to analyzeFeedback
  aiRequests,   \* the requests analyzeFeedback has sent to ai.run, in order
  themeCall,    \* the promise of extractThemes
  sentCall,     \* the promise of analyzeSentimentAndUrgency
  analysis,     \* the object analyzeFeedback returned
  upPc,         \* position of handleUpload: the store call it awaits, or its end
  upSource,     \* the source of the upload
  upRows,       \* the rows of the upload from the current one on
  upRecord,     \* the processed record of the current row
  upIds,        \* the ids the store calls of the current row returned
  processedData, \* the feedback ids of the records pushed so far
  upResponse,   \* the response of the upload
  users,        \* the rows of the users table
  feedback_master,    \* the rows of the feedback_master table
  sentiment_analysis, \* the rows of the sentiment_analysis table
  fnCall,       \* the function of the last call of a function on its own, with its arguments
  fnResult,     \* what that call returned
  batchPc,      \* position of batchAnalyzeFeedback: the await it is suspended in, or its end
  feedbackItems, \* the items given to batchAnalyzeFeedback
  batchSize,    \* its batchSize
  batchIndex,   \* its loop variable i
  analyses,     \* per item, the promise of its analyzeFeedback call
  batchOutput,  \* its results array
  pauseTimer,   \* the delay of the pending setTimeout
  pausesElapsed, \* the number of timers that have fired
  batchReturned \* what batchAnalyzeFeedback returned

searchVars ==
  <<searchPc, userQuery, intent, sqlQuery, results, summaryRequests, summaryCall,
    storeStatements, searchResult>>

analyzeVars == <<anPc, feedbackText, aiRequests, themeCall, sentCall, analysis>>

uploadVars ==
  <<upPc, upSource, upRows, upRecord, upIds, processedData, upResponse,
    users, feedback_master, sentiment_analysis>>

functionVars == <<fnCall, fnResult>>

batchVars ==
  <<batchPc, feedbackItems, batchSize, batchIndex, analyses, batchOutput,
    pauseTimer, pausesElapsed, batchReturned>>

vars == <<searchVars, analyzeVars, uploadVars, functionVars, batchVars>>

(***************************************************************************)
(* Bounds of the model.                                                    *)
(***************************************************************************)
MaxQueryWords == 3    \* a query is built from at most this many vocabulary words
MaxFeedbackWords == 2
MaxUploadRows == 2
MaxResultRows == 3 \* a feedback text is built from at most this many words

(***************************************************************************)
(* JavaScript values.                                                      *)
(***************************************************************************)
Null == [t |-> "null"]
Undefined == [t |-> "undefined"]
Num(n) == [t |-> "num", n |-> n]
Str(s) == [t |-> "str", s |-> s]
List(l) == [t |-> "list", l |-> l]

Text(c) == [t |-> "text", c |-> c]    \* a string held as its characters

\* ToBoolean, as used by `a || b`, `a && b` and `if (a)`.
Truthy(v) ==
  CASE v.t = "null" -> FALSE
    [] v.t = "undefined" -> FALSE
    [] v.t = "num" -> v.n # 0
    [] v.t = "str" -> v.s # ""
    [] v.t = "text" -> v.c # <<>>
    [] OTHER -> TRUE

\* a || b
OrElse(a, b) == IF Truthy(a) THEN a ELSE b

(***************************************************************************)
(* The components at rest.                                                 *)
(***************************************************************************)
NoCall == [st |-> "none"]

SearchIdle ==
  /\ searchPc = "idle"
  /\ userQuery = <<>>
  /\ intent = Undefined
  /\ sqlQuery = Undefined
  /\ results = Undefined
  /\ summaryRequests = <<>>
  /\ summaryCall = NoCall
  /\ storeStatements = <<>>
  /\ searchResult = Undefined

AnalyzeIdle ==
  /\ anPc = "idle"
  /\ feedbackText = <<>>
  /\ aiRequests = <<>>
  /\ themeCall = NoCall
  /\ sentCall = NoCall
  /\ analysis = Undefined

\* no upload received; the store as schema.sql leaves it
UploadIdle ==
  /\ upPc = "idle"
  /\ upSource = Undefined
  /\ upRows = <<>>
  /\ upRecord = Null
  /\ upIds = [userId |-> Null, productAreaId |-> Null, sourceId |-> Null, feedbackId |-> Null]
  /\ processedData = <<>>
  /\ upResponse = Undefined
  /\ users = <<>>
  /\ feedback_master = <<>>
  /\ sentiment_analysis = <<>>

\* no function called on its own
\* batchAnalyzeFeedback has not been called
BatchIdle ==
  /\ batchPc = "idle"
  /\ feedbackItems = <<>>
  /\ batchSize = 0
  /\ batchIndex = 0
  /\ analyses = <<>>
  /\ batchOutput = <<>>
  /\ pauseTimer = Null
  /\ pausesElapsed = 0
  /\ batchReturned = Undefined

FunctionsIdle ==
  /\ fnCall = [fn |-> "none"]
  /\ fnResult = Undefined

(***************************************************************************)
(* Character strings.                                                      *)
(***************************************************************************)
UpperToLower ==
  ("A" :> "a") @@ ("B" :> "b") @@ ("C" :> "c") @@ ("D" :> "d") @@
  ("E" :> "e") @@ ("F" :> "f") @@ ("G" :> "g") @@ ("H" :> "h") @@
  ("I" :> "i") @@ ("J" :> "j") @@ ("K" :> "k") @@ ("L" :> "l") @@
  ("M" :> "m") @@ ("N" :> "n") @@ ("O" :> "o") @@ ("P" :> "p") @@
  ("Q" :> "q") @@ ("R" :> "r") @@ ("S" :> "s") @@ ("T" :> "t") @@
  ("U" :> "u") @@ ("V" :> "v") @@ ("W" :> "w") @@ ("X" :> "x") @@
  ("Y" :> "y") @@ ("Z" :> "z")

\* String.prototype.toLowerCase
toLowerCase(s) ==
  [i \in 1..Len(s) |-> IF s[i] \in DOMAIN UpperToLower THEN UpperToLower[s[i]] ELSE s[i]]

\* String.prototype.includes: k occurs in s as a contiguous substring
includes(s, k) ==
  \E i \in 1..(Len(s) - Len(k) + 1) : \A j \in 1..Len(k) : s[i + j - 1] = k[j]

includesAny(s, ks) == \E k \in ks : includes(s, k)

DigitValue ==
  ("0" :> 0) @@ ("1" :> 1) @@ ("2" :> 2) @@ ("3" :> 3) @@ ("4" :> 4) @@
  ("5" :> 5) @@ ("6" :> 6) @@ ("7" :> 7) @@ ("8" :> 8) @@ ("9" :> 9)

IsDigit(c) == c \in DOMAIN DigitValue

\* s.match(/(\d+)/): the leftmost maximal run of digits, <<>> when there is none
FirstDigitRun(s) ==
  IF \A i \in 1..Len(s) : ~IsDigit(s[i]) THEN <<>>
  ELSE LET first == CHOOSE i \in 1..Len(s) :
                      IsDigit(s[i]) /\ \A j \in 1..(i - 1) : ~IsDigit(s[j])
           last == CHOOSE i \in first..Len(s) :
                      /\ \A j \in first..i : IsDigit(s[j])
                      /\ (i = Len(s) \/ ~IsDigit(s[i + 1]))
       IN SubSeq(s, first, last)

\* parseInt of a string of decimal digits
RECURSIVE parseInt(_)
parseInt(d) ==
  IF d = <<>> THEN 0
  ELSE 10 * parseInt(SubSeq(d, 1, Len(d) - 1)) + DigitValue[d[Len(d)]]

\* words.join(' ')
RECURSIVE JoinWords(_)
JoinWords(ws) ==
  IF ws = <<>> THEN <<>>
  ELSE IF Len(ws) = 1 THEN ws[1]
  ELSE ws[1] \o <<" ">> \o JoinWords(Tail(ws))

(***************************************************************************)
(* Query Intent Parser: SearchAgent.parseIntentWithKeywords.               *)
(***************************************************************************)
ListingKeywords ==
  { <<"r","e","v","i","e","w">>,
    <<"s","h","o","w"," ","m","e">>,
    <<"l","i","s","t">> }

SimpleBlockers ==
  { <<"u","r","g","e","n","t">>,
    <<"c","r","i","t","i","c","a","l">>,
    <<"n","e","g","a","t","i","v","e">>,
    <<"p","o","s","i","t","i","v","e">> }

CriticalQueryKeywords ==
  { <<"c","r","i","t","i","c","a","l">>,
    <<"u","r","g","e","n","t">> }

HighQueryKeywords ==
  { <<"h","i","g","h"," ","p","r","i","o","r","i","t","y">>,
    <<"h","i","g","h">>,
    <<"i","m","p","o","r","t","a","n","t">> }

NegativeQueryKeywords ==
  { <<"n","e","g","a","t","i","v","e">>,
    <<"c","o","m","p","l","a","i","n","t","s">>,
    <<"c","o","m","p","l","a","i","n","i","n","g">> }

PositiveQueryKeywords ==
  { <<"p","o","s","i","t","i","v","e">>,
    <<"h","a","p","p","y">> }

kw_enterprise == <<"e","n","t","e","r","p","r","i","s","e">>
kw_pro == <<"p","r","o">>
kw_free == <<"f","r","e","e">>
kw_workers_ai == <<"w","o","r","k","e","r","s"," ","a","i">>
kw_workers == <<"w","o","r","k","e","r","s">>
kw_d1 == <<"d","1">>
kw_workflow == <<"w","o","r","k","f","l","o","w">>
kw_r2 == <<"r","2">>
kw_kv == <<"k","v">>

DefaultLimit == 20
ListingLimit == 50
MaxLimit == 100

isSimpleReviewQuery(lowerQuery) ==
  includesAny(lowerQuery, ListingKeywords) /\ ~includesAny(lowerQuery, SimpleBlockers)

\* mutants of ParsedUrgency: no suppression in simple listing mode; the
\* high-priority rule tested before the critical rule
ParsedUrgencyNoSuppress(lowerQuery) ==
  IF includesAny(lowerQuery, CriticalQueryKeywords) THEN List(<<"Critical">>)
  ELSE IF includesAny(lowerQuery, HighQueryKeywords) THEN List(<<"Critical", "High">>)
  ELSE Null

ParsedUrgencyHighFirst(lowerQuery) ==
  IF isSimpleReviewQuery(lowerQuery) THEN Null
  ELSE IF includesAny(lowerQuery, HighQueryKeywords) THEN List(<<"Critical", "High">>)
  ELSE IF includesAny(lowerQuery, CriticalQueryKeywords) THEN List(<<"Critical">>)
  ELSE Null

ParsedUrgency(lowerQuery) ==
  IF isSimpleReviewQuery(lowerQuery) THEN Null
  ELSE IF includesAny(lowerQuery, CriticalQueryKeywords) THEN List(<<"Critical">>)
  ELSE IF includesAny(lowerQuery, HighQueryKeywords) THEN List(<<"Critical", "High">>)
  ELSE Null

ParsedSentiment(lowerQuery) ==
  IF isSimpleReviewQuery(lowerQuery) THEN Null
  ELSE IF includesAny(lowerQuery, NegativeQueryKeywords) THEN List(<<"Negative", "Frustrated">>)
  ELSE IF includesAny(lowerQuery, PositiveQueryKeywords) THEN List(<<"Positive">>)
  ELSE Null

ParsedTier(lowerQuery) ==
  IF includes(lowerQuery, kw_enterprise) THEN Str("Enterprise")
  ELSE IF includes(lowerQuery, kw_pro) THEN Str("Pro")
  ELSE IF includes(lowerQuery, kw_free) THEN Str("Free")
  ELSE Null

ParsedProduct(lowerQuery) ==
  IF includes(lowerQuery, kw_workers_ai) THEN Str("Workers AI")
  ELSE IF includes(lowerQuery, kw_workers) THEN Str("Workers")
  ELSE IF includes(lowerQuery, kw_d1) THEN Str("D1 Database")
  ELSE IF includes(lowerQuery, kw_workflow) THEN Str("Workflows")
  ELSE IF includes(lowerQuery, kw_r2) THEN Str("R2 Storage")
  ELSE IF includes(lowerQuery, kw_kv) THEN Str("KV Storage")
  ELSE Null

\* mutant of ExplicitLimit: the number is taken without the range test
ExplicitLimitUnchecked(lowerQuery) ==
  LET numberMatch == FirstDigitRun(lowerQuery)
  IN IF numberMatch # <<>> THEN parseInt(numberMatch) ELSE DefaultLimit

\* the limit after "Limit - check for explicit numbers"
ExplicitLimit(lowerQuery) ==
  LET numberMatch == FirstDigitRun(lowerQuery)
      num == parseInt(numberMatch)
  IN IF numberMatch # <<>> /\ num > 0 /\ num <= MaxLimit THEN num ELSE DefaultLimit

\* the limit after "Special handling for list or show me queries"
ParsedLimit(lowerQuery) ==
  IF includesAny(lowerQuery, ListingKeywords) THEN ListingLimit
  ELSE ExplicitLimit(lowerQuery)

parseIntentWithKeywords(q) ==
  LET lowerQuery == toLowerCase(q)
  IN [ urgency |-> ParsedUrgency(lowerQuery),
       sentiment |-> ParsedSentiment(lowerQuery),
       product |-> ParsedProduct(lowerQuery),
       theme |-> Null,
       customerTier |-> ParsedTier(lowerQuery),
       sortBy |-> Str("urgency_score"),
       limit |-> Num(ParsedLimit(lowerQuery)) ]

\* SearchAgent.parseQueryIntent: the keyword parser, no AI call
parseQueryIntent(q) == parseIntentWithKeywords(q)

(***************************************************************************)
(* SQL Query Builder: SearchAgent.generateSQL.                             *)
(* The compiled SQL text is the sequence of its pieces: Sql(s) is text     *)
(* written in the source of generateSQL, Interp(v) is a value of the       *)
(* intent interpolated into the text by a template literal.                *)
(***************************************************************************)
Sql(s) == [k |-> "sql", s |-> s]
Interp(v) == [k |-> "interp", v |-> v]

\* `%${theme}%`
LikePattern(v) == [t |-> "like", v |-> v]

SelectHead ==
  Sql("SELECT fm.feedback_id, ..., GROUP_CONCAT(t.theme_name) as themes FROM feedback_master fm LEFT JOIN users u ... LEFT JOIN sentiment_analysis sa ... LEFT JOIN feedback_themes ft ... LEFT JOIN themes t ... WHERE 1=1")

\* list.map(() => '?').join(',')
RECURSIVE Placeholders(_)
Placeholders(n) ==
  IF n = 0 THEN <<>>
  ELSE IF n = 1 THEN <<Sql("?")>>
  ELSE <<Sql("?"), Sql(",")>> \o Placeholders(n - 1)

NoClause == [on |-> FALSE, cond |-> <<>>, params |-> <<>>]

\* mutant of UrgencyClause: the length of the list is not tested
UrgencyClauseForAnyList(i) ==
  IF Truthy(i.urgency)
  THEN [on |-> TRUE,
        cond |-> <<Sql("sa.urgency IN (")>> \o Placeholders(Len(i.urgency.l)) \o <<Sql(")")>>,
        params |-> i.urgency.l]
  ELSE NoClause

\* if (intent.urgency && intent.urgency.length > 0)
UrgencyClause(i) ==
  IF Truthy(i.urgency) /\ Len(i.urgency.l) > 0
  THEN [on |-> TRUE,
        cond |-> <<Sql("sa.urgency IN (")>> \o Placeholders(Len(i.urgency.l)) \o <<Sql(")")>>,
        params |-> i.urgency.l]
  ELSE NoClause

\* if (intent.sentiment && intent.sentiment.length > 0)
SentimentClause(i) ==
  IF Truthy(i.sentiment) /\ Len(i.sentiment.l) > 0
  THEN [on |-> TRUE,
        cond |-> <<Sql("sa.sentiment IN (")>> \o Placeholders(Len(i.sentiment.l)) \o <<Sql(")")>>,
        params |-> i.sentiment.l]
  ELSE NoClause

\* mutant of ProductClause: the product name written into the SQL text
ProductClauseInterpolated(i) ==
  IF Truthy(i.product)
  THEN [on |-> TRUE,
        cond |-> <<Sql("pa.product_name = '"), Interp(i.product), Sql("'")>>,
        params |-> <<>>]
  ELSE NoClause

\* if (intent.product)
ProductClause(i) ==
  IF Truthy(i.product)
  THEN [on |-> TRUE, cond |-> <<Sql("pa.product_name = "), Sql("?")>>, params |-> <<i.product>>]
  ELSE NoClause

\* if (intent.customerTier)
TierClause(i) ==
  IF Truthy(i.customerTier)
  THEN [on |-> TRUE, cond |-> <<Sql("u.customer_tier = "), Sql("?")>>, params |-> <<i.customerTier>>]
  ELSE NoClause

\* if (intent.theme)
ThemeClause(i) ==
  IF Truthy(i.theme)
  THEN [on |-> TRUE, cond |-> <<Sql("t.theme_name LIKE "), Sql("?")>>, params |-> <<LikePattern(i.theme)>>]
  ELSE NoClause

\* the clauses in the order generateSQL tests the filters
Clauses(i) ==
  SelectSeq(<<UrgencyClause(i), SentimentClause(i), ProductClause(i), TierClause(i), ThemeClause(i)>>,
            LAMBDA c : c.on)

\* conditions.join(' AND ')
RECURSIVE JoinAnd(_)
JoinAnd(cs) ==
  IF cs = <<>> THEN <<>>
  ELSE IF Len(cs) = 1 THEN cs[1].cond
  ELSE cs[1].cond \o <<Sql(" AND ")>> \o JoinAnd(Tail(cs))

RECURSIVE AllParams(_)
AllParams(cs) == IF cs = <<>> THEN <<>> ELSE cs[1].params \o AllParams(Tail(cs))

\* const sortBy = intent.sortBy || 'urgency_score'
SortKey(i) == OrElse(i.sortBy, Str("urgency_score"))

\* const limit = intent.limit || 20
LimitValue(i) == OrElse(i.limit, Num(DefaultLimit))

generateSQL(i) ==
  LET cs == Clauses(i)
  IN [ sql |-> <<SelectHead>>
               \o (IF Len(cs) > 0 THEN <<Sql(" AND ")>> \o JoinAnd(cs) ELSE <<>>)
               \o <<Sql(" GROUP BY fm.feedback_id")>>
               \o <<Sql(" ORDER BY "), Interp(SortKey(i)), Sql(" DESC, fm.created_date DESC")>>
               \o <<Sql(" LIMIT "), Interp(LimitValue(i))>>,
       params |-> AllParams(cs) ]

(***************************************************************************)
(* QUERY_TEMPLATES and intents built by a caller of generateSQL.           *)
(***************************************************************************)
NoIntent ==
  [ urgency |-> Undefined, sentiment |-> Undefined, product |-> Undefined,
    theme |-> Undefined, customerTier |-> Undefined, sortBy |-> Undefined,
    limit |-> Undefined ]

TemplateProducts == {"Workers", "D1 Database"}

QUERY_TEMPLATES ==
  { [NoIntent EXCEPT !.urgency = List(<<"Critical", "High">>),
                     !.sortBy = Str("urgency_score"), !.limit = Num(20)],
    [NoIntent EXCEPT !.customerTier = Str("Enterprise"),
                     !.sortBy = Str("created_date"), !.limit = Num(20)],
    [NoIntent EXCEPT !.sentiment = List(<<"Negative", "Frustrated">>),
                     !.sortBy = Str("urgency_score"), !.limit = Num(20)],
    [NoIntent EXCEPT !.sortBy = Str("created_date"), !.limit = Num(20)] }
  \cup { [NoIntent EXCEPT !.product = Str(p),
                          !.sortBy = Str("urgency_score"), !.limit = Num(20)] :
         p \in TemplateProducts }

\* intents a caller of the public method generateSQL can build
CallerIntents ==
  [ urgency : {Undefined, Null, List(<<>>), List(<<"Critical", "High">>)},
    sentiment : {Undefined, List(<<"Negative">>)},
    product : {Undefined, Str(""), Str("Workers")},
    theme : {Undefined, Str("Billing")},
    customerTier : {Undefined, Str("Pro")},
    sortBy : {Undefined, Str("urgency_score"), Str("created_date"),
              Str("value_score; DROP TABLE feedback_master")},
    limit : {Undefined, Num(0), Num(1), Num(100), Num(101), Num(-1),
             Str("1; DELETE FROM users")} ]

(***************************************************************************)
(* The query vocabulary: a query is at most MaxQueryWords of these words,  *)
(* in this order, joined by single spaces.                                 *)
(***************************************************************************)
QueryWords ==
  << <<"5">>,
     <<"9","9","9">>,
     <<"l","i","s","t">>,
     <<"S","h","o","w"," ","m","e">>,
     <<"r","e","v","i","e","w">>,
     <<"c","r","i","t","i","c","a","l">>,
     <<"u","r","g","e","n","t">>,
     <<"h","i","g","h">>,
     <<"i","m","p","o","r","t","a","n","t">>,
     <<"n","e","g","a","t","i","v","e">>,
     <<"c","o","m","p","l","a","i","n","t","s">>,
     <<"c","o","m","p","l","a","i","n","i","n","g">>,
     <<"p","o","s","i","t","i","v","e">>,
     <<"h","a","p","p","y">>,
     <<"E","n","t","e","r","p","r","i","s","e">>,
     <<"p","r","o">>,
     <<"f","r","e","e">>,
     <<"w","o","r","k","e","r","s"," ","a","i">>,
     <<"w","o","r","k","e","r","s">>,
     <<"d","1">>,
     <<"w","o","r","k","f","l","o","w">>,
     <<"r","2">>,
     <<"k","v">>,
     <<"f","e","e","d","b","a","c","k">>,
     <<"1","0","0">>,
     <<"0">>,
     <<"1","0","1">> >>

\* the index sequences i1 < i2 < ... of length at most n into a vocabulary of m words
RECURSIVE Picks(_, _)
Picks(n, m) ==
  IF n = 0 THEN {<<>>}
  ELSE LET shorter == Picks(n - 1, m)
       IN shorter \cup
          { Append(x[1], x[2]) :
              x \in { y \in shorter \X (1..m) :
                        /\ Len(y[1]) = n - 1
                        /\ (y[1] = <<>> \/ y[2] > y[1][Len(y[1])]) } }

QueryTexts ==
  { JoinWords([k \in 1..Len(p) |-> QueryWords[p[k]]]) : p \in Picks(MaxQueryWords, Len(QueryWords)) }

(***************************************************************************)
(* SearchAgent.processQuery, step by step, and direct calls of             *)
(* generateSQL.                                                            *)
(***************************************************************************)
SearchInit == SearchIdle /\ AnalyzeIdle /\ UploadIdle /\ FunctionsIdle /\ BatchIdle

\* processQuery, step 1: const intent = await this.parseQueryIntent(userQuery)
ParseQueryIntent(q) ==
  /\ searchPc = "idle"
  /\ userQuery' = q
  /\ intent' = parseQueryIntent(q)
  /\ searchPc' = "parsed"
  /\ UNCHANGED <<sqlQuery, results, summaryRequests, storeStatements, summaryCall, searchResult, analyzeVars, uploadVars, functionVars, batchVars>>

\* processQuery, step 2: const sqlQuery = this.generateSQL(intent)
GenerateSQLStep ==
  /\ searchPc = "parsed"
  /\ sqlQuery' = generateSQL(intent)
  /\ searchPc' = "built"
  /\ UNCHANGED <<userQuery, intent, results, summaryRequests, storeStatements, summaryCall, searchResult, analyzeVars, uploadVars, functionVars, batchVars>>

\* generateSQL called with a predefined template
GenerateSQLFromTemplate(i) ==
  /\ searchPc = "idle"
  /\ intent' = i
  /\ sqlQuery' = generateSQL(i)
  /\ searchPc' = "compiled"
  /\ UNCHANGED <<userQuery, results, summaryRequests, storeStatements, summaryCall, searchResult, analyzeVars, uploadVars, functionVars, batchVars>>

\* generateSQL called with an intent the caller built
GenerateSQLFromCaller(i) ==
  /\ searchPc = "idle"
  /\ intent' = i
  /\ sqlQuery' = generateSQL(i)
  /\ searchPc' = "compiled"
  /\ UNCHANGED <<userQuery, results, summaryRequests, storeStatements, summaryCall, searchResult, analyzeVars, uploadVars, functionVars, batchVars>>

SearchNext ==
  \/ \E q \in QueryTexts : ParseQueryIntent(q)
  \/ GenerateSQLStep
  \/ \E i \in QUERY_TEMPLATES : GenerateSQLFromTemplate(i)
  \/ \E i \in CallerIntents : GenerateSQLFromCaller(i)

SpecSearch == SearchInit /\ [][SearchNext]_vars

(***************************************************************************)
(* Properties of the SQL Query Builder.                                    *)
(***************************************************************************)
Compiled == searchPc \in {"built", "compiled"}

\* the column names the repository sorts by (parser default and templates)
SortColumns == {"urgency_score", "created_date"}

InterpolatedAt(sql) == {k \in 1..Len(sql) : sql[k].k = "interp"}

\* C1: whatever intent generateSQL is given, the sort key interpolated after
\* ORDER BY belongs to the closed set of sort columns and the limit
\* interpolated after LIMIT is an integer in [1,100].
InterpolationValidated ==
  Compiled =>
    LET sql == sqlQuery.sql
        sortBy == sql[Len(sql) - 3].v
        limit == sql[Len(sql)].v
    IN /\ sql[Len(sql) - 4] = Sql(" ORDER BY ")
       /\ sql[Len(sql) - 1] = Sql(" LIMIT ")
       /\ sortBy.t = "str" /\ sortBy.s \in SortColumns
       /\ limit.t = "num" /\ limit.n \in 1..MaxLimit

\* the filter values of an intent, in the order urgency, sentiment, product,
\* customer tier, theme pattern
FilterList(v) == IF v.t = "list" THEN v.l ELSE <<>>
FilterOne(v) == IF Truthy(v) THEN <<v>> ELSE <<>>
FilterPattern(v) == IF Truthy(v) THEN <<LikePattern(v)>> ELSE <<>>

FilterValues(i) ==
  FilterList(i.urgency) \o FilterList(i.sentiment) \o FilterOne(i.product)
    \o FilterOne(i.customerTier) \o FilterPattern(i.theme)

\* sql[k] opens an IN list of exactly n placeholders separated by commas
InListAt(sql, k, n) ==
  /\ k + 2 * n <= Len(sql)
  /\ \A j \in 1..(2 * n - 1) : sql[k + j] = (IF j % 2 = 1 THEN Sql("?") ELSE Sql(","))
  /\ sql[k + 2 * n] = Sql(")")

\* C2: every filter value is bound through params and never interpolated:
\* the placeholders of the SQL text are as many as the params, an IN list has
\* one placeholder per value, params holds the values in the order urgency,
\* sentiment, product, tier, theme, and the only interpolated pieces are the
\* sort key and the limit.
FiltersOnlyInParams ==
  Compiled =>
    LET sql == sqlQuery.sql
    IN /\ Cardinality({k \in 1..Len(sql) : sql[k] = Sql("?")}) = Len(sqlQuery.params)
       /\ sqlQuery.params = FilterValues(intent)
       /\ InterpolatedAt(sql) = {Len(sql) - 3, Len(sql)}
       /\ \A k \in 1..Len(sql) :
            /\ sql[k] = Sql("sa.urgency IN (") => InListAt(sql, k, Len(intent.urgency.l))
            /\ sql[k] = Sql("sa.sentiment IN (") => InListAt(sql, k, Len(intent.sentiment.l))
       /\ Len(FilterList(intent.urgency)) > 0 => \E k \in 1..Len(sql) : sql[k] = Sql("sa.urgency IN (")
       /\ Len(FilterList(intent.sentiment)) > 0 => \E k \in 1..Len(sql) : sql[k] = Sql("sa.sentiment IN (")

\* witness of C2: a compiled query with all five filters, two urgency values
AllFiltersCompiled ==
  /\ Compiled
  /\ Len(FilterList(intent.urgency)) = 2
  /\ Len(FilterList(intent.sentiment)) = 1
  /\ Truthy(intent.product) /\ Truthy(intent.customerTier) /\ Truthy(intent.theme)
  /\ Len(sqlQuery.params) = 6

(***************************************************************************)
(* Properties of the Query Intent Parser.                                  *)
(***************************************************************************)
Parsed == searchPc \in {"parsed", "built"}

LowerQuery == toLowerCase(userQuery)
HasListingKeyword == includesAny(LowerQuery, ListingKeywords)
HasNumber == \E k \in 1..Len(userQuery) : IsDigit(userQuery[k])
FirstNumber == parseInt(FirstDigitRun(LowerQuery))
HasWord(k) == includes(LowerQuery, k)

\* C3: the parsed limit is an integer in [1,100]; a first number outside the
\* range is not used; without a number the limit is 20, or 50 with a
\* listing keyword.
LimitInRange ==
  Parsed =>
    /\ intent.limit.t = "num"
    /\ intent.limit.n \in 1..100
    /\ (HasNumber /\ FirstNumber \notin 1..100) => intent.limit.n \in {20, 50}
    /\ (~HasNumber /\ ~HasListingKeyword) => intent.limit.n = 20
    /\ (~HasNumber /\ HasListingKeyword) => intent.limit.n = 50

\* witness of C3: a parsed query whose first number is above 100
OutOfRangeNumberParsed ==
  Parsed /\ HasNumber /\ FirstNumber > 100 /\ ~HasListingKeyword /\ intent.limit.n = 20

\* C4: in a query with a listing keyword, an explicit number n in [1,100]
\* is the limit (the number wins over the widening to 50).
ExplicitNumberWins ==
  (Parsed /\ HasListingKeyword /\ HasNumber /\ FirstNumber \in 1..100)
    => intent.limit = Num(FirstNumber)

SimpleListing ==
  /\ HasListingKeyword
  /\ ~HasWord(<<"u","r","g","e","n","t">>)
  /\ ~HasWord(<<"c","r","i","t","i","c","a","l">>)
  /\ ~HasWord(<<"n","e","g","a","t","i","v","e">>)
  /\ ~HasWord(<<"p","o","s","i","t","i","v","e">>)

TierFromKeywords ==
  /\ HasWord(kw_enterprise) => intent.customerTier = Str("Enterprise")
  /\ (~HasWord(kw_enterprise) /\ HasWord(kw_pro)) => intent.customerTier = Str("Pro")
  /\ (~HasWord(kw_enterprise) /\ ~HasWord(kw_pro) /\ HasWord(kw_free))
       => intent.customerTier = Str("Free")
  /\ (~HasWord(kw_enterprise) /\ ~HasWord(kw_pro) /\ ~HasWord(kw_free))
       => intent.customerTier = Null

ProductFromKeywords ==
  /\ HasWord(kw_workers_ai) => intent.product = Str("Workers AI")
  /\ (~HasWord(kw_workers_ai) /\ HasWord(kw_workers)) => intent.product = Str("Workers")
  /\ (~HasWord(kw_workers) /\ HasWord(kw_d1)) => intent.product = Str("D1 Database")
  /\ (~HasWord(kw_workers) /\ ~HasWord(kw_d1) /\ HasWord(kw_workflow))
       => intent.product = Str("Workflows")
  /\ (~HasWord(kw_workers) /\ ~HasWord(kw_d1) /\ ~HasWord(kw_workflow) /\ HasWord(kw_r2))
       => intent.product = Str("R2 Storage")
  /\ (~HasWord(kw_workers) /\ ~HasWord(kw_d1) /\ ~HasWord(kw_workflow) /\ ~HasWord(kw_r2)
        /\ HasWord(kw_kv)) => intent.product = Str("KV Storage")
  /\ (~HasWord(kw_workers) /\ ~HasWord(kw_d1) /\ ~HasWord(kw_workflow) /\ ~HasWord(kw_r2)
        /\ ~HasWord(kw_kv)) => intent.product = Null

\* C5: in simple listing mode (a listing keyword and none of urgent,
\* critical, negative, positive) the intent has no urgency and no sentiment
\* filter whatever other keywords occur, and tier and product are still set.
SimpleListingSuppressesFilters ==
  (Parsed /\ SimpleListing) =>
    /\ intent.urgency = Null
    /\ intent.sentiment = Null
    /\ TierFromKeywords
    /\ ProductFromKeywords

\* witness of C5: a simple listing query with "high", "happy", a tier and a
\* product keyword
SimpleListingWithOtherKeywords ==
  /\ Parsed /\ SimpleListing
  /\ HasWord(<<"h","i","g","h">>) \/ HasWord(<<"h","a","p","p","y">>)
  /\ intent.urgency = Null /\ intent.sentiment = Null
  /\ intent.customerTier = Str("Enterprise")

UrgencyFromKeywords ==
  /\ (HasWord(<<"c","r","i","t","i","c","a","l">>) \/ HasWord(<<"u","r","g","e","n","t">>))
       => intent.urgency = List(<<"Critical">>)
  /\ (/\ ~HasWord(<<"c","r","i","t","i","c","a","l">>) /\ ~HasWord(<<"u","r","g","e","n","t">>)
      /\ (HasWord(<<"h","i","g","h">>) \/ HasWord(<<"i","m","p","o","r","t","a","n","t">>)))
       => intent.urgency = List(<<"Critical", "High">>)
  /\ (/\ ~HasWord(<<"c","r","i","t","i","c","a","l">>) /\ ~HasWord(<<"u","r","g","e","n","t">>)
      /\ ~HasWord(<<"h","i","g","h">>) /\ ~HasWord(<<"i","m","p","o","r","t","a","n","t">>))
       => intent.urgency = Null

SentimentFromKeywords(negative) ==
  /\ negative => intent.sentiment = List(<<"Negative", "Frustrated">>)
  /\ (~negative /\ (HasWord(<<"p","o","s","i","t","i","v","e">>) \/ HasWord(<<"h","a","p","p","y">>)))
       => intent.sentiment = List(<<"Positive">>)
  /\ (~negative /\ ~HasWord(<<"p","o","s","i","t","i","v","e">>) /\ ~HasWord(<<"h","a","p","p","y">>))
       => intent.sentiment = Null

ListingCriticalEnterprise ==
  (HasListingKeyword /\ HasWord(<<"c","r","i","t","i","c","a","l">>) /\ HasWord(kw_enterprise)) =>
    /\ intent.urgency = List(<<"Critical">>)
    /\ intent.customerTier = Str("Enterprise")
    /\ intent.limit = Num(50)
    /\ intent.sortBy = Str("urgency_score")

\* C6 as stated: outside simple listing mode the urgency filter is [Critical]
\* for critical/urgent, else [Critical, High] for high/important, else none;
\* the sentiment filter is [Negative, Frustrated] for negative/complaints,
\* else [Positive] for positive/happy, else none; listing + critical +
\* enterprise gives [Critical], Enterprise, limit 50, sortBy urgency_score.
KeywordRulesAsStated ==
  (Parsed /\ ~SimpleListing) =>
    /\ UrgencyFromKeywords
    /\ SentimentFromKeywords(HasWord(<<"n","e","g","a","t","i","v","e">>)
                               \/ HasWord(<<"c","o","m","p","l","a","i","n","t","s">>))
    /\ ListingCriticalEnterprise

\* C6 amended: the same, with "complaining" among the keywords that give the
\* sentiment filter [Negative, Frustrated].
KeywordRulesWithComplaining ==
  (Parsed /\ ~SimpleListing) =>
    /\ UrgencyFromKeywords
    /\ SentimentFromKeywords(HasWord(<<"n","e","g","a","t","i","v","e">>)
                               \/ HasWord(<<"c","o","m","p","l","a","i","n","t","s">>)
                               \/ HasWord(<<"c","o","m","p","l","a","i","n","i","n","g">>))
    /\ ListingCriticalEnterprise

\* witness of C6: a query outside simple listing mode with "critical" and
\* "high", and one with "complaining" and "happy"
CriticalAndHighParsed ==
  /\ Parsed /\ ~SimpleListing
  /\ HasWord(<<"c","r","i","t","i","c","a","l">>) /\ HasWord(<<"h","i","g","h">>)
  /\ HasWord(<<"c","o","m","p","l","a","i","n","i","n","g">>)
  /\ intent.urgency = List(<<"Critical">>)
  /\ intent.sentiment = List(<<"Negative", "Frustrated">>)

(***************************************************************************)
(* Keyword Inference Engine: FeedbackAnalysisAgent.inferThemeFromKeywords, *)
(* inferSentiment, inferUrgency.                                           *)
(***************************************************************************)
\* the rules of inferThemeFromKeywords, in the order the code tests them
ThemeRules ==
  << [theme |-> "API Rate Limits",
      keywords |-> {<<"r","a","t","e"," ","l","i","m","i","t">>, <<"4","2","9">>}],
     [theme |-> "Documentation Quality",
      keywords |-> {<<"d","o","c","u","m","e","n","t","a","t","i","o","n">>, <<"d","o","c","s">>, <<"u","n","c","l","e","a","r">>}],
     [theme |-> "Performance Issues",
      keywords |-> {<<"s","l","o","w">>, <<"l","a","t","e","n","c","y">>, <<"p","e","r","f","o","r","m","a","n","c","e">>}],
     [theme |-> "Billing Concerns",
      keywords |-> {<<"b","i","l","l","i","n","g">>, <<"c","o","s","t">>, <<"p","r","i","c","e">>}],
     [theme |-> "WebSocket Support",
      keywords |-> {<<"w","e","b","s","o","c","k","e","t">>, <<"w","s">>}],
     [theme |-> "Cold Start Latency",
      keywords |-> {<<"c","o","l","d"," ","s","t","a","r","t">>}],
     [theme |-> "TypeScript Support",
      keywords |-> {<<"t","y","p","e","s","c","r","i","p","t">>, <<"t","y","p","e","s">>}],
     [theme |-> "Mobile SDK",
      keywords |-> {<<"m","o","b","i","l","e">>, <<"i","o","s">>, <<"a","n","d","r","o","i","d">>}],
     [theme |-> "Security/Compliance",
      keywords |-> {<<"s","e","c","u","r","i","t","y">>, <<"c","o","m","p","l","i","a","n","c","e">>, <<"s","o","c","2">>}],
     [theme |-> "Positive Feedback",
      keywords |-> {<<"l","o","v","e">>, <<"g","r","e","a","t">>, <<"a","m","a","z","i","n","g">>}],
     [theme |-> "Feature Request",
      keywords |-> {<<"r","e","q","u","e","s","t">>, <<"f","e","a","t","u","r","e">>, <<"p","l","e","a","s","e"," ","a","d","d">>}] >>

negativeWords ==
  { <<"h","a","t","e">>,
    <<"t","e","r","r","i","b","l","e">>,
    <<"b","r","o","k","e","n">>,
    <<"f","r","u","s","t","r","a","t","e","d">>,
    <<"a","n","g","r","y">>,
    <<"a","w","f","u","l">>,
    <<"w","o","r","s","t">>,
    <<"u","n","a","c","c","e","p","t","a","b","l","e">> }

positiveWords ==
  { <<"l","o","v","e">>,
    <<"g","r","e","a","t">>,
    <<"a","m","a","z","i","n","g">>,
    <<"e","x","c","e","l","l","e","n","t">>,
    <<"f","a","n","t","a","s","t","i","c">>,
    <<"p","e","r","f","e","c","t">>,
    <<"w","o","n","d","e","r","f","u","l">> }

frustratedWords ==
  { <<"f","r","u","s","t","r","a","t","e","d">>,
    <<"a","n","n","o","y","i","n","g">>,
    <<"c","o","n","f","u","s","i","n","g">>,
    <<"d","i","f","f","i","c","u","l","t">>,
    <<"s","t","r","u","g","g","l","i","n","g">> }

criticalWords ==
  { <<"u","r","g","e","n","t">>,
    <<"c","r","i","t","i","c","a","l">>,
    <<"p","r","o","d","u","c","t","i","o","n">>,
    <<"o","u","t","a","g","e">>,
    <<"d","o","w","n">>,
    <<"b","r","o","k","e","n">>,
    <<"d","a","t","a"," ","l","o","s","s">> }

highWords ==
  { <<"b","l","o","c","k","i","n","g">>,
    <<"c","a","n","t">>,
    <<"f","a","i","l","i","n","g">>,
    <<"e","r","r","o","r">>,
    <<"b","u","g">> }

lowWords ==
  { <<"n","i","c","e"," ","t","o"," ","h","a","v","e">>,
    <<"s","u","g","g","e","s","t","i","o","n">>,
    <<"w","o","u","l","d"," ","l","o","v","e">>,
    <<"f","u","t","u","r","e">> }

kw_but == <<"b","u","t">>
kw_bangs == <<"!","!","!">>
Ellipsis == <<".",".",".">>

inferThemeFromKeywords(text) ==
  LET lowerText == toLowerCase(text)
      hits == {k \in 1..Len(ThemeRules) : includesAny(lowerText, ThemeRules[k].keywords)}
  IN IF hits = {} THEN "General Feedback"
     ELSE ThemeRules[CHOOSE k \in hits : \A j \in hits : k <= j].theme

\* mutant of inferSentiment: a tie of the counts goes to Negative
inferSentimentTieNegative(text) ==
  LET lowerText == toLowerCase(text)
      negativeCount == Cardinality({w \in negativeWords : includes(lowerText, w)})
      positiveCount == Cardinality({w \in positiveWords : includes(lowerText, w)})
      frustratedCount == Cardinality({w \in frustratedWords : includes(lowerText, w)})
  IN IF frustratedCount > 0 \/ (negativeCount > 0 /\ includes(lowerText, kw_but)) THEN "Frustrated"
     ELSE IF negativeCount >= positiveCount /\ negativeCount > 0 THEN "Negative"
     ELSE IF positiveCount > negativeCount THEN "Positive"
     ELSE "Neutral"

inferSentiment(text) ==
  LET lowerText == toLowerCase(text)
      negativeCount == Cardinality({w \in negativeWords : includes(lowerText, w)})
      positiveCount == Cardinality({w \in positiveWords : includes(lowerText, w)})
      frustratedCount == Cardinality({w \in frustratedWords : includes(lowerText, w)})
  IN IF frustratedCount > 0 \/ (negativeCount > 0 /\ includes(lowerText, kw_but)) THEN "Frustrated"
     ELSE IF negativeCount > positiveCount THEN "Negative"
     ELSE IF positiveCount > negativeCount THEN "Positive"
     ELSE "Neutral"

inferUrgency(text) ==
  LET lowerText == toLowerCase(text)
  IN IF includesAny(lowerText, criticalWords) \/ includes(lowerText, kw_bangs) THEN "Critical"
     ELSE IF includesAny(lowerText, highWords) THEN "High"
     ELSE IF includesAny(lowerText, lowWords) THEN "Low"
     ELSE "Medium"

\* String.prototype.slice(0, n)
slice(s, n) == SubSeq(s, 1, IF Len(s) < n THEN Len(s) ELSE n)

FallbackConfidence == 500     \* 0.5, confidences are in thousandths
DefaultConfidence == 700      \* 0.7
DefaultValueScore == 5
AISummaryLength == 100
FallbackSummaryLength == 150

\* feedbackText.slice(0, n) + '...'
SummaryOf(text, n) == Text(slice(text, n) \o Ellipsis)

getFallbackAnalysis(text) ==
  [ themes |-> List(<<inferThemeFromKeywords(text)>>),
    sentiment |-> Str(inferSentiment(text)),
    urgency |-> Str(inferUrgency(text)),
    summary |-> SummaryOf(text, FallbackSummaryLength),
    valueScore |-> Num(DefaultValueScore),
    confidence |-> Num(FallbackConfidence) ]

getFallbackSentimentAnalysis(text) ==
  [ sentiment |-> Str(inferSentiment(text)),
    urgency |-> Str(inferUrgency(text)),
    summary |-> SummaryOf(text, FallbackSummaryLength),
    valueScore |-> Num(DefaultValueScore),
    confidence |-> Num(FallbackConfidence) ]

(***************************************************************************)
(* The text-completion service and FeedbackAnalysisAgent.parseAIResponse.  *)
(* A call of ai.run throws or returns a response; a response has a shape   *)
(* and a text; the text has a form and, where it holds JSON, the value the *)
(* JSON denotes.                                                           *)
(***************************************************************************)
Obj(f) == [t |-> "obj", f |-> f]

NoThemeFields == [themes |-> Undefined, confidence |-> Undefined]

NoSentimentFields ==
  [ sentiment |-> Undefined, urgency |-> Undefined, summary |-> Undefined,
    valueScore |-> Undefined, confidence |-> Undefined ]

\* how the response carries its text
ResponseShapes ==
  { "object",     \* { response: text }
    "array",      \* [ { response: text } ]
    "string",     \* text
    "other",      \* an object without a response property
    "nullish" }   \* null or undefined

\* what the text is
TextForms ==
  { "json",       \* a JSON object
    "fenced",     \* a JSON object inside ```json ... ```
    "embedded",   \* a JSON object with prose before and after it
    "twoObjects", \* prose holding two JSON objects
    "prose",      \* no braces, not JSON
    "jsonNull",   \* the JSON text null
    "jsonNumber", \* the JSON text of a number
    "empty" }     \* the empty string

\* the text parseAIResponse works on: response.response, response[0]?.response,
\* the response itself, or ''
ResponseText(r) ==
  IF r.shape = "object" /\ r.form # "empty" THEN r.form
  ELSE IF r.shape = "array" THEN r.form
  ELSE IF r.shape = "string" THEN r.form
  ELSE "empty"

\* text.match(/```json\n?([\s\S]*?)\n?```/) || text.match(/\{[\s\S]*\}/), then
\* JSON.parse(text.trim()); `none` is the object without properties
parseAIResponse(r, none) ==
  IF r.shape = "nullish" THEN Obj(none)                 \* TypeError, caught: {}
  ELSE LET form == ResponseText(r)
       IN CASE form \in {"json", "fenced", "embedded"} -> Obj(r.json)
            [] form = "jsonNull" -> Null
            [] form = "jsonNumber" -> Obj(none)           \* a number has no such properties
            [] OTHER -> Obj(none)                         \* SyntaxError, caught: {}

Fulfilled(v) == [rejected |-> FALSE, v |-> v]
Rejected == [rejected |-> TRUE]

\* mutants of ThemesCatch: the error is thrown on; the default confidence
\* of the success path is used
ThemesCatchRethrows(text) == Rejected

ThemesCatchDefaultConfidence(text) ==
  Fulfilled([ themes |-> List(<<inferThemeFromKeywords(text)>>),
              confidence |-> Num(DefaultConfidence) ])

\* extractThemes: catch (error) { ... }
ThemesCatch(text) ==
  Fulfilled([ themes |-> List(<<inferThemeFromKeywords(text)>>),
              confidence |-> Num(FallbackConfidence) ])

\* extractThemes, from the outcome of its ai.run call on
extractThemes(text, o) ==
  IF o.kind = "throw" THEN ThemesCatch(text)
  ELSE LET result == parseAIResponse(o.response, NoThemeFields)
       IN IF result = Null THEN ThemesCatch(text)      \* result.themes: TypeError
          ELSE Fulfilled([ themes |-> OrElse(result.f.themes,
                                             List(<<inferThemeFromKeywords(text)>>)),
                           confidence |-> OrElse(result.f.confidence, Num(DefaultConfidence)) ])

\* analyzeSentimentAndUrgency: catch (error) { ... }
SentimentCatch(text) == Fulfilled(getFallbackSentimentAnalysis(text))

\* analyzeSentimentAndUrgency, from the outcome of its ai.run call on
analyzeSentimentAndUrgency(text, o) ==
  IF o.kind = "throw" THEN SentimentCatch(text)
  ELSE LET result == parseAIResponse(o.response, NoSentimentFields)
       IN IF result = Null THEN SentimentCatch(text)   \* result.sentiment: TypeError
          ELSE Fulfilled([ sentiment |-> OrElse(result.f.sentiment, Str(inferSentiment(text))),
                           urgency |-> OrElse(result.f.urgency, Str(inferUrgency(text))),
                           summary |-> OrElse(result.f.summary, SummaryOf(text, AISummaryLength)),
                           valueScore |-> OrElse(result.f.valueScore, Num(DefaultValueScore)),
                           confidence |-> OrElse(result.f.confidence, Num(DefaultConfidence)) ])

\* (a + b) / 2 on thousandths; the confidences of the model are multiples of
\* 0.05, so the division is exact
Mean(a, b) == Num((a.n + b.n) \div 2)

\* analyzeFeedback once Promise.all has settled: the combined object, or the
\* catch branch when a sub-call rejected
CombineAnalysis(text, th, se) ==
  IF th.rejected \/ se.rejected THEN getFallbackAnalysis(text)
  ELSE [ themes |-> th.v.themes,
         sentiment |-> se.v.sentiment,
         urgency |-> se.v.urgency,
         summary |-> se.v.summary,
         valueScore |-> se.v.valueScore,
         confidence |-> Mean(th.v.confidence, se.v.confidence) ]

(***************************************************************************)
(* The feedback texts and the outcomes of ai.run of the model.             *)
(***************************************************************************)
FeedbackWords ==
  << <<"L","o","v","e">>,
     <<"b","r","o","k","e","n">>,
     <<"b","u","t">>,
     <<"f","r","u","s","t","r","a","t","e","d">>,
     <<"r","a","t","e"," ","l","i","m","i","t">>,
     <<"d","o","c","s">>,
     <<"b","u","g">>,
     <<"s","u","g","g","e","s","t","i","o","n">>,
     <<"U","R","G","E","N","T">> >>


\* a filler longer than both summary lengths, without any keyword
LongFiller == [k \in 1..160 |-> "z"]

FeedbackTexts ==
  { JoinWords([k \in 1..Len(p) |-> FeedbackWords[p[k]]]) :
      p \in Picks(MaxFeedbackWords, Len(FeedbackWords)) }
  \cup { LongFiller, JoinWords(<<FeedbackWords[1], LongFiller>>) }

ThemeJsons ==
  { [themes |-> List(<<"API Rate Limits", "Billing Concerns">>), confidence |-> Num(850)],
    [themes |-> List(<<>>), confidence |-> Num(850)],
    [themes |-> List(<<"Data Loss", "Mobile SDK", "Regional Issues", "Feature Request">>),
     confidence |-> Num(1000)],
    [themes |-> List(<<"Unknown Topic">>), confidence |-> Num(7000)],
    [themes |-> List(<<"Data Loss">>), confidence |-> Num(0)],
    NoThemeFields }

SentimentJsons ==
  { [sentiment |-> Str("Negative"), urgency |-> Str("High"), summary |-> Str("AI summary"),
     valueScore |-> Num(8), confidence |-> Num(900)],
    [sentiment |-> Str("Angry"), urgency |-> Str("Blocker"), summary |-> Str("AI summary"),
     valueScore |-> Num(42), confidence |-> Num(7000)],
    [sentiment |-> Str("Positive"), urgency |-> Undefined, summary |-> Undefined,
     valueScore |-> Num(0), confidence |-> Undefined],
    [sentiment |-> Str("Neutral"), urgency |-> Str("Low"), summary |-> Str(""),
     valueScore |-> Num(-3), confidence |-> Num(-500)],
    NoSentimentFields }

\* the responses carrying a JSON value j of the set js, and those carrying none
ResponsesWith(js, j0) ==
  { [shape |-> "object", form |-> "json", json |-> j] : j \in js }
  \cup { [shape |-> sh, form |-> fo, json |-> j0] :
           sh \in {"array", "string"}, fo \in {"fenced", "embedded"} }
  \cup { [shape |-> "object", form |-> fo, json |-> Undefined] :
           fo \in {"twoObjects", "prose", "jsonNull", "jsonNumber", "empty"} }
  \cup { [shape |-> sh, form |-> "json", json |-> j0] : sh \in {"other", "nullish"} }

Throws == [kind |-> "throw"]
Returns(r) == [kind |-> "return", response |-> r]

ThemeOutcomes ==
  {Throws} \cup
  { Returns(r) : r \in ResponsesWith(ThemeJsons,
      [themes |-> List(<<"API Rate Limits", "Billing Concerns">>), confidence |-> Num(850)]) }

SentimentOutcomes ==
  {Throws} \cup
  { Returns(r) : r \in ResponsesWith(SentimentJsons,
      [sentiment |-> Str("Negative"), urgency |-> Str("High"), summary |-> Str("AI summary"),
       valueScore |-> Num(8), confidence |-> Num(900)]) }

(***************************************************************************)
(* FeedbackAnalysisAgent.analyzeFeedback, step by step.  The handlers of   *)
(* the two responses run only while analyzeFeedback is suspended in        *)
(* await Promise.all (or has returned).                                    *)
(***************************************************************************)
Pending == [st |-> "pending"]
Settled(o, res) == [st |-> "settled", outcome |-> o, result |-> res]

\* analyzeFeedback is called; extractThemes runs up to its await ai.run
CallExtractThemes(t) ==
  /\ anPc = "idle"
  /\ feedbackText' = t
  /\ aiRequests' = Append(aiRequests, "themes")
  /\ themeCall' = Pending
  /\ anPc' = "themesCalled"
  /\ UNCHANGED <<sentCall, analysis, searchVars, uploadVars, functionVars, batchVars>>

\* analyzeSentimentAndUrgency runs up to its await ai.run; Promise.all waits
CallAnalyzeSentiment ==
  /\ anPc = "themesCalled"
  /\ aiRequests' = Append(aiRequests, "sentiment")
  /\ sentCall' = Pending
  /\ anPc' = "awaiting"
  /\ UNCHANGED <<feedbackText, themeCall, analysis, searchVars, uploadVars, functionVars, batchVars>>

\* the ai.run call of extractThemes ends with outcome o
ThemesSettle(o) ==
  /\ anPc \in {"awaiting", "done"}
  /\ themeCall = Pending
  /\ themeCall' = Settled(o, extractThemes(feedbackText, o))
  /\ UNCHANGED <<anPc, feedbackText, aiRequests, sentCall, analysis, searchVars, uploadVars, functionVars, batchVars>>

\* mutant of SentimentSettle: a failed request is sent once more
SentimentSettleRetries(o) ==
  /\ anPc \in {"awaiting", "done"}
  /\ sentCall = Pending
  /\ IF o.kind = "throw" /\ Len(aiRequests) < 3
     THEN /\ aiRequests' = Append(aiRequests, "sentiment")
          /\ UNCHANGED sentCall
     ELSE /\ sentCall' = Settled(o, analyzeSentimentAndUrgency(feedbackText, o))
          /\ UNCHANGED aiRequests
  /\ UNCHANGED <<anPc, feedbackText, themeCall, analysis, searchVars, uploadVars, functionVars, batchVars>>

\* the ai.run call of analyzeSentimentAndUrgency ends with outcome o
SentimentSettle(o) ==
  /\ anPc \in {"awaiting", "done"}
  /\ sentCall = Pending
  /\ sentCall' = Settled(o, analyzeSentimentAndUrgency(feedbackText, o))
  /\ UNCHANGED <<anPc, feedbackText, aiRequests, themeCall, analysis, searchVars, uploadVars, functionVars, batchVars>>

IsRejected(c) == c.st = "settled" /\ c.result.rejected
IsFulfilled(c) == c.st = "settled" /\ ~c.result.rejected

\* Promise.all([a, b]) has settled: both fulfilled, or one rejected
PromiseAllSettled(a, b) ==
  (IsFulfilled(a) /\ IsFulfilled(b)) \/ IsRejected(a) \/ IsRejected(b)

\* analyzeFeedback resumes after await Promise.all and returns
ReturnAnalysis ==
  /\ anPc = "awaiting"
  /\ PromiseAllSettled(themeCall, sentCall)
  /\ analysis' = CombineAnalysis(feedbackText,
                   IF themeCall.st = "settled" THEN themeCall.result ELSE Fulfilled(Undefined),
                   IF sentCall.st = "settled" THEN sentCall.result ELSE Fulfilled(Undefined))
  /\ anPc' = "done"
  /\ UNCHANGED <<feedbackText, aiRequests, themeCall, sentCall, searchVars, uploadVars, functionVars, batchVars>>

AnalyzeNext ==
  \/ \E t \in FeedbackTexts : CallExtractThemes(t)
  \/ CallAnalyzeSentiment
  \/ \E o \in ThemeOutcomes : ThemesSettle(o)
  \/ \E o \in SentimentOutcomes : SentimentSettle(o)
  \/ ReturnAnalysis

AnalyzeInit == SearchIdle /\ AnalyzeIdle /\ UploadIdle /\ FunctionsIdle /\ BatchIdle

SpecAnalyze == AnalyzeInit /\ [][AnalyzeNext]_vars

(***************************************************************************)
(* Properties of the AI Enrichment Adapter.                                *)
(***************************************************************************)
AnalysisReturned == anPc = "done"

\* the ai.run call of a sub-call threw
Threw(c) == c.st = "settled" /\ c.outcome = Throws

\* the sub-call took its catch branch: ai.run threw, or reading the parsed
\* response threw
ThemesFailed ==
  /\ themeCall.st = "settled"
  /\ \/ themeCall.outcome = Throws
     \/ parseAIResponse(themeCall.outcome.response, NoThemeFields) = Null

SentimentFailed ==
  /\ sentCall.st = "settled"
  /\ \/ sentCall.outcome = Throws
     \/ parseAIResponse(sentCall.outcome.response, NoSentimentFields) = Null

\* C7: when the ai.run calls of both sub-calls throw, analyzeFeedback returns
\* (it does not fail) themes = [the keyword-inferred theme], sentiment and
\* urgency from keyword inference, value score 5 and confidence exactly 0.5:
\* the result of getFallbackAnalysis.
FallbackWhenBothThrow ==
  (Threw(themeCall) /\ Threw(sentCall)) =>
    /\ PromiseAllSettled(themeCall, sentCall)
    /\ ~IsRejected(themeCall) /\ ~IsRejected(sentCall)
    /\ AnalysisReturned =>
         /\ analysis.themes = List(<<inferThemeFromKeywords(feedbackText)>>)
         /\ analysis.sentiment = Str(inferSentiment(feedbackText))
         /\ analysis.urgency = Str(inferUrgency(feedbackText))
         /\ analysis.valueScore = Num(5)
         /\ analysis.confidence = Num(500)
         /\ analysis = getFallbackAnalysis(feedbackText)

\* both calls threw on a text whose inferred values are not the defaults, and
\* analyzeFeedback has returned
BothThrewAndReturned ==
  /\ AnalysisReturned
  /\ Threw(themeCall) /\ Threw(sentCall)
  /\ analysis.sentiment = Str("Frustrated")
  /\ analysis.urgency = Str("Critical")

\* the object a successful sub-call parsed from its response
ThemesParsed == parseAIResponse(themeCall.outcome.response, NoThemeFields).f
SentimentParsed == parseAIResponse(sentCall.outcome.response, NoSentimentFields).f

\* field by field: a value the response carries is the value of the result
TakenFromResponse(parsed, fields) ==
  \A f \in fields : Truthy(parsed[f]) => analysis[f] = parsed[f]

\* C8: both requests are issued before either response is handled, and when
\* exactly one sub-call fails the other is not aborted: analyzeFeedback
\* returns only once both have settled, the failed sub-call's values are those
\* of keyword inference, the successful sub-call's values are those its
\* response carries, and the confidence is the mean of the successful
\* sub-call's confidence and 0.5.
OneFailureDoesNotAbortTheOther ==
  /\ (themeCall.st = "settled" \/ sentCall.st = "settled" \/ AnalysisReturned)
       => aiRequests = <<"themes", "sentiment">>
  /\ (AnalysisReturned /\ (ThemesFailed \/ SentimentFailed))
       => themeCall.st = "settled" /\ sentCall.st = "settled"
  /\ (AnalysisReturned /\ ThemesFailed /\ sentCall.st = "settled" /\ ~SentimentFailed) =>
       /\ analysis.themes = List(<<inferThemeFromKeywords(feedbackText)>>)
       /\ TakenFromResponse(SentimentParsed, {"sentiment", "urgency", "summary", "valueScore"})
       /\ analysis.confidence = Mean(sentCall.result.v.confidence, Num(500))
       /\ Truthy(SentimentParsed.confidence)
            => analysis.confidence = Mean(SentimentParsed.confidence, Num(500))
  /\ (AnalysisReturned /\ SentimentFailed /\ themeCall.st = "settled" /\ ~ThemesFailed) =>
       /\ analysis.sentiment = Str(inferSentiment(feedbackText))
       /\ analysis.urgency = Str(inferUrgency(feedbackText))
       /\ TakenFromResponse(ThemesParsed, {"themes"})
       /\ analysis.confidence = Mean(themeCall.result.v.confidence, Num(500))
       /\ Truthy(ThemesParsed.confidence)
            => analysis.confidence = Mean(ThemesParsed.confidence, Num(500))

\* theme extraction threw, the sentiment response was used, and the result
\* mixes the inferred theme with the values of the response
ThemesThrewSentimentUsed ==
  /\ AnalysisReturned
  /\ Threw(themeCall) /\ sentCall.st = "settled" /\ ~SentimentFailed
  /\ analysis.themes = List(<<"API Rate Limits">>)
  /\ analysis.sentiment = Str("Negative")
  /\ analysis.valueScore = Num(8)
  /\ analysis.confidence = Num(700)
  /\ Str(inferSentiment(feedbackText)) # analysis.sentiment

Sentiments == {"Positive", "Neutral", "Negative", "Frustrated"}
Urgencies == {"Critical", "High", "Medium", "Low"}

\* C9: for every response of the text-completion service, the AnalysisResult
\* analyzeFeedback returns has a sentiment and an urgency of the vocabularies,
\* between 1 and 3 themes, a value score in 1..10 and a confidence in [0, 1].
AnalysisWithinVocabulary ==
  AnalysisReturned =>
    /\ analysis.sentiment \in {Str(x) : x \in Sentiments}
    /\ analysis.urgency \in {Str(x) : x \in Urgencies}
    /\ analysis.themes.t = "list"
    /\ Len(analysis.themes.l) \in 1..3
    /\ analysis.valueScore.t = "num" /\ analysis.valueScore.n \in 1..10
    /\ analysis.confidence.t = "num" /\ analysis.confidence.n \in 0..1000

(***************************************************************************)
(* DataCleaning: cleanText and the row processors, as far as the fields    *)
(* insertFeedback branches on.                                             *)
(***************************************************************************)
IsSpace(c) == c \in {" ", "\n", "\t"}

\* the text from its first character that is not whitespace
trimStart(s) ==
  IF \A k \in 1..Len(s) : IsSpace(s[k]) THEN <<>>
  ELSE LET first == CHOOSE k \in 1..Len(s) :
                      ~IsSpace(s[k]) /\ \A j \in 1..(k - 1) : IsSpace(s[j])
       IN SubSeq(s, first, Len(s))

\* the text up to its last character that is not whitespace
trimEnd(s) ==
  IF \A k \in 1..Len(s) : IsSpace(s[k]) THEN <<>>
  ELSE LET last == CHOOSE k \in 1..Len(s) :
                     ~IsSpace(s[k]) /\ \A j \in (k + 1)..Len(s) : IsSpace(s[j])
       IN SubSeq(s, 1, last)

trim(s) == trimEnd(trimStart(s))

\* .replace(/\s+/g, ' '): of every run of whitespace the first character is
\* kept, as a space
collapseWhitespace(s) ==
  LET StartsRun(k) == ~IsSpace(s[k]) \/ k = 1 \/ ~IsSpace(s[k - 1])
      kept == SelectSeq([k \in 1..Len(s) |-> k], StartsRun)
  IN [i \in 1..Len(kept) |-> IF IsSpace(s[kept[i]]) THEN " " ELSE s[kept[i]]]

\* .replace(/\n{3,}/g, '\n\n'): of every run of three newlines or more the
\* first two are kept
limitNewlines(s) ==
  LET Kept(k) == ~(s[k] = "\n" /\ k > 2 /\ s[k - 1] = "\n" /\ s[k - 2] = "\n")
      kept == SelectSeq([k \in 1..Len(s) |-> k], Kept)
  IN [i \in 1..Len(kept) |-> s[kept[i]]]

MaxTextLength == 5000

\* cleanText of a cell: the characters of the cleaned text
cleanText(text) ==
  IF ~Truthy(text) THEN <<>>
  ELSE slice(limitNewlines(collapseWhitespace(trim(text.c))), MaxTextLength)

NoDescription == <<"N", "o", " ", "d", "e", "s", "c", "r", "i", "p", "t", "i", "o", "n">>
NoContent == <<"N", "o", " ", "c", "o", "n", "t", "e", "n", "t">>
NoTitle == <<"N", "o", " ", "t", "i", "t", "l", "e">>
NoSubject == <<"N", "o", " ", "s", "u", "b", "j", "e", "c", "t">>
NoBody == <<"N", "o", " ", "b", "o", "d", "y">>

\* (a || x) + '\n\n' + (b || y)
TitleAndBody(a, x, b, y) == Text(OrElse(a, Text(x)).c \o <<"\n", "\n">> \o OrElse(b, Text(y)).c)

\* A row of an upload: the cells the processors read for the text (title and
\* text), the author (email and name) and, as `product`, the product area the
\* processor of the source derives from the row.
processSupportTicket(row) ==
  [ feedback_text |-> cleanText(OrElse(row.text, Text(NoDescription))),
    email |-> OrElse(row.email, Null),
    username |-> OrElse(row.name, Null),
    product_area |-> row.product,
    source |-> Str("Support") ]

processDiscordMessage(row) ==
  [ feedback_text |-> cleanText(OrElse(row.text, Text(NoContent))),
    email |-> Null,
    username |-> OrElse(row.name, Str("anonymous")),
    product_area |-> row.product,
    source |-> Str("Discord") ]

processGitHubIssue(row) ==
  [ feedback_text |-> cleanText(TitleAndBody(row.title, NoTitle, row.text, NoDescription)),
    email |-> Null,
    username |-> OrElse(row.name, Str("anonymous")),
    product_area |-> row.product,
    source |-> Str("GitHub") ]

processEmail(row) ==
  [ feedback_text |-> cleanText(TitleAndBody(row.title, NoSubject, row.text, NoBody)),
    email |-> OrElse(row.email, Null),
    username |-> Null,
    product_area |-> row.product,
    source |-> Str("Email") ]

processTweet(row) ==
  [ feedback_text |-> cleanText(OrElse(row.text, Text(NoContent))),
    email |-> Null,
    username |-> OrElse(row.name, Str("anonymous")),
    product_area |-> row.product,
    source |-> Str("Twitter") ]

processForumPost(row) ==
  [ feedback_text |-> cleanText(TitleAndBody(row.title, NoTitle, row.text, NoContent)),
    email |-> Null,
    username |-> OrElse(row.name, Str("anonymous")),
    product_area |-> row.product,
    source |-> Str("Forum") ]

\* the sources of the switch of handleUpload, which are the seeded rows of the
\* sources table, in the order of their source_id
KnownSources == <<"Support", "Discord", "GitHub", "Email", "Twitter", "Forum">>

\* the seeded rows of product_areas, in the order of their product_area_id
SeededProductAreas ==
  << "Workers", "Workers AI", "D1 Database", "Workflows", "R2 Storage", "KV Storage",
     "Pages", "Billing", "Documentation", "API" >>

\* switch (source) { ... }
ProcessRow(source, row) ==
  CASE source = Str("Support") -> processSupportTicket(row)
    [] source = Str("Discord") -> processDiscordMessage(row)
    [] source = Str("GitHub") -> processGitHubIssue(row)
    [] source = Str("Email") -> processEmail(row)
    [] source = Str("Twitter") -> processTweet(row)
    [] source = Str("Forum") -> processForumPost(row)

IsKnownSource(source) == \E k \in 1..Len(KnownSources) : source = Str(KnownSources[k])

\* SELECT <id> FROM <table> WHERE <name> = ?  ... .first()
IdOf(names, name) ==
  IF \E k \in 1..Len(names) : name = Str(names[k])
  THEN Num(CHOOSE k \in 1..Len(names) : name = Str(names[k]))
  ELSE Null

(***************************************************************************)
(* The uploads of the model.                                               *)
(***************************************************************************)
BugReport == <<" ", " ", "d", "1", " ", "i", "s", "\n", "\n", "\n", "\n", "d", "o", "w", "n", " ">>
Blank == <<" ", "\n", " ">>
Title == <<"B", "u", "g">>

UploadedRows ==
  { [title |-> Text(Title), text |-> Text(BugReport), email |-> Str("a@example.com"),
     name |-> Str("alice"), product |-> Str("D1 Database")],
    [title |-> Undefined, text |-> Text(BugReport), email |-> Undefined,
     name |-> Undefined, product |-> Null],
    [title |-> Undefined, text |-> Text(Blank), email |-> Str("a@example.com"),
     name |-> Undefined, product |-> Str("Zaraz")],
    [title |-> Undefined, text |-> Undefined, email |-> Undefined,
     name |-> Str("bob"), product |-> Null] }

RECURSIVE Arrays(_)
Arrays(n) ==
  IF n = 0 THEN {<<>>}
  ELSE LET shorter == Arrays(n - 1)
       IN shorter \cup { Append(a, r) : a \in {b \in shorter : Len(b) = n - 1}, r \in UploadedRows }

UploadRequests ==
  { [source |-> Str(KnownSources[k]), data |-> List(a)] :
      k \in 1..Len(KnownSources), a \in Arrays(MaxUploadRows) }
  \cup { [source |-> Str("Slack"), data |-> List(a)] : a \in Arrays(MaxUploadRows) }
  \cup { [source |-> src, data |-> List(a)] : src \in {Str(""), Undefined}, a \in Arrays(1) }
  \cup { [source |-> Str("Support"), data |-> d] : d \in {Undefined, Str("rows")} }

(***************************************************************************)
(* handleUpload and insertFeedback, from one await of a store call to the  *)
(* next.  The store calls of a row: the users upsert, the product_areas    *)
(* select, the sources select, the feedback_master insert and the          *)
(* sentiment_analysis insert.                                              *)
(***************************************************************************)
NoIds == [userId |-> Null, productAreaId |-> Null, sourceId |-> Null, feedbackId |-> Null]

JsonResponse(body, status) == [status |-> status, body |-> body]

\* the handler's promise rejected: nothing awaits it inside the try of fetch
Uncaught(message) == [status |-> "exception", body |-> [error |-> message]]

\* the for loop up to its next await: the rows left, the records pushed so far
\*   - no row left: the success response
\*   - insertFeedback throws before its first store call
\*   - otherwise the first store call of the row is pending
LoopFrom(source, rows, pushed) ==
  IF rows = <<>>
  THEN [ pc |-> "responded", record |-> Null,
         response |-> JsonResponse([success |-> TRUE, processed |-> Len(pushed)], 200) ]
  ELSE LET processed == ProcessRow(source, rows[1])
       IN IF processed.feedback_text = <<>>
          THEN [ pc |-> "threw", record |-> processed,
                 response |-> Uncaught("feedback_text is required") ]
          ELSE IF ~Truthy(processed.source)
          THEN [ pc |-> "threw", record |-> processed,
                 response |-> Uncaught("source is required") ]
          ELSE [ pc |-> IF Truthy(processed.email) \/ Truthy(processed.username)
                        THEN "upsertUser"
                        ELSE IF Truthy(processed.product_area) THEN "selectProductArea"
                        ELSE "selectSource",
                 record |-> processed,
                 response |-> Undefined ]

\* POST /api/upload
HandleUpload(req) ==
  /\ upPc = "idle"
  /\ upSource' = req.source
  /\ IF ~Truthy(req.source) \/ ~Truthy(req.data) \/ req.data.t # "list"
     THEN /\ upPc' = "responded"
          /\ upResponse' = JsonResponse([error |-> "Invalid request. Need source and data array."], 400)
          /\ UNCHANGED <<upRows, upRecord>>
     ELSE IF ~IsKnownSource(req.source)
     THEN \* default: continue, for every row
          /\ upPc' = "responded"
          /\ upResponse' = JsonResponse([success |-> TRUE, processed |-> 0], 200)
          /\ upRows' = <<>>
          /\ UNCHANGED upRecord
     ELSE LET next == LoopFrom(req.source, req.data.l, <<>>)
          IN /\ upPc' = next.pc
             /\ upRecord' = next.record
             /\ upResponse' = next.response
             /\ upRows' = req.data.l
  /\ UNCHANGED <<upIds, processedData, users, feedback_master, sentiment_analysis>>
  /\ UNCHANGED <<searchVars, analyzeVars, functionVars, batchVars>>

\* INSERT INTO users ... ON CONFLICT(email) DO UPDATE ... RETURNING user_id
UpsertUserReturns ==
  /\ upPc = "upsertUser"
  /\ LET known == {k \in 1..Len(users) : upRecord.email # Null /\ users[k].email = upRecord.email}
     IN IF known # {}
        THEN /\ users' = users
             /\ upIds' = [NoIds EXCEPT !.userId = Num(CHOOSE k \in known : TRUE)]
        ELSE /\ users' = Append(users, [email |-> upRecord.email, username |-> upRecord.username])
             /\ upIds' = [NoIds EXCEPT !.userId = Num(Len(users) + 1)]
  /\ upPc' = IF Truthy(upRecord.product_area) THEN "selectProductArea" ELSE "selectSource"
  /\ UNCHANGED <<upSource, upRows, upRecord, processedData, upResponse,
                 feedback_master, sentiment_analysis>>
  /\ UNCHANGED <<searchVars, analyzeVars, functionVars, batchVars>>

\* SELECT product_area_id FROM product_areas WHERE product_name = ?
SelectProductAreaReturns ==
  /\ upPc = "selectProductArea"
  /\ upIds' = [upIds EXCEPT !.productAreaId =
                 LET id == IdOf(SeededProductAreas, upRecord.product_area)
                 IN IF id = Null THEN Undefined ELSE id]   \* paResult?.product_area_id
  /\ upPc' = "selectSource"
  /\ UNCHANGED <<upSource, upRows, upRecord, processedData, upResponse,
                 users, feedback_master, sentiment_analysis>>
  /\ UNCHANGED <<searchVars, analyzeVars, functionVars, batchVars>>

\* SELECT source_id FROM sources WHERE source_name = ?
SelectSourceReturns ==
  /\ upPc = "selectSource"
  /\ LET sourceResult == IdOf(KnownSources, upRecord.source)
     IN IF sourceResult = Null
        THEN /\ upPc' = "threw"
             /\ upResponse' = Uncaught("Invalid source")
             /\ UNCHANGED upIds
        ELSE /\ upPc' = "insertFeedback"
             /\ upIds' = [upIds EXCEPT !.sourceId = sourceResult]
             /\ UNCHANGED upResponse
  /\ UNCHANGED <<upSource, upRows, upRecord, processedData,
                 users, feedback_master, sentiment_analysis>>
  /\ UNCHANGED <<searchVars, analyzeVars, functionVars, batchVars>>

\* INSERT INTO feedback_master ... RETURNING feedback_id; insertFeedback
\* returns and handleUpload awaits the INSERT INTO sentiment_analysis
InsertFeedbackReturns ==
  /\ upPc = "insertFeedback"
  /\ feedback_master' = Append(feedback_master,
       [ feedback_id |-> Len(feedback_master) + 1,
         user_id |-> upIds.userId,
         product_area_id |-> upIds.productAreaId,
         source_id |-> upIds.sourceId,
         feedback_text |-> upRecord.feedback_text ])
  /\ upIds' = [upIds EXCEPT !.feedbackId = Num(Len(feedback_master) + 1)]
  /\ upPc' = "insertAnalysis"
  /\ UNCHANGED <<upSource, upRows, upRecord, processedData, upResponse,
                 users, sentiment_analysis>>
  /\ UNCHANGED <<searchVars, analyzeVars, functionVars, batchVars>>

\* INSERT INTO sentiment_analysis (the placeholder analysis); the record is
\* pushed and the loop goes on
InsertAnalysisReturns ==
  /\ upPc = "insertAnalysis"
  /\ sentiment_analysis' = Append(sentiment_analysis,
       [ analysis_id |-> Len(sentiment_analysis) + 1,
         feedback_id |-> upIds.feedbackId.n,
         sentiment |-> "Neutral",
         ai_summary |-> "Bulk upload - AI analysis pending",
         model_used |-> "pending",
         confidence_score |-> FallbackConfidence ])
  /\ processedData' = Append(processedData, upIds.feedbackId.n)
  /\ LET next == LoopFrom(upSource, Tail(upRows), processedData')
     IN /\ upPc' = next.pc
        /\ upRecord' = next.record
        /\ upResponse' = next.response
  /\ upRows' = Tail(upRows)
  /\ upIds' = NoIds
  /\ UNCHANGED <<upSource, users, feedback_master>>
  /\ UNCHANGED <<searchVars, analyzeVars, functionVars, batchVars>>

StoreCalls == {"upsertUser", "selectProductArea", "selectSource", "insertFeedback", "insertAnalysis"}

\* the pending store call throws: nothing in insertFeedback or handleUpload
\* catches it
StoreCallThrows ==
  /\ upPc \in StoreCalls
  /\ upPc' = "threw"
  /\ upResponse' = Uncaught("store call failed")
  /\ UNCHANGED <<upSource, upRows, upRecord, upIds, processedData,
                 users, feedback_master, sentiment_analysis>>
  /\ UNCHANGED <<searchVars, analyzeVars, functionVars, batchVars>>

UploadNext ==
  \/ \E req \in UploadRequests : HandleUpload(req)
  \/ UpsertUserReturns
  \/ SelectProductAreaReturns
  \/ SelectSourceReturns
  \/ InsertFeedbackReturns
  \/ InsertAnalysisReturns
  \/ StoreCallThrows

UploadInit == SearchIdle /\ AnalyzeIdle /\ UploadIdle /\ FunctionsIdle /\ BatchIdle

SpecUpload == UploadInit /\ [][UploadNext]_vars

(***************************************************************************)
(* Properties of the store.                                                *)
(***************************************************************************)
UploadAtRest == upPc \in {"responded", "threw"}

HasAnalysis(f) ==
  \E k \in 1..Len(sentiment_analysis) : sentiment_analysis[k].feedback_id = f.feedback_id

\* C10: once an upload has ended, by its response or by a store call that
\* failed partway, every feedback_master row it wrote has a
\* sentiment_analysis row: no feedback record is present without its analysis.
EveryFeedbackHasAnalysis ==
  UploadAtRest => \A k \in 1..Len(feedback_master) : HasAnalysis(feedback_master[k])

\* the upload named a source that is none of the six of the switch
UnknownSourceUploaded ==
  /\ UploadAtRest
  /\ Truthy(upSource)
  /\ ~IsKnownSource(upSource)

\* C11: an upload whose source is not one of Support, Discord, GitHub, Email,
\* Twitter, Forum is answered with the invalid-input error (status 400), never
\* as a success, and writes nothing to the store.
UnknownSourceRejected ==
  UnknownSourceUploaded =>
    /\ upResponse.status = 400
    /\ users = <<>> /\ feedback_master = <<>> /\ sentiment_analysis = <<>>

(***************************************************************************)
(* Result Summarizer: SearchAgent.formatResponse, createResultsSummary,    *)
(* createFallbackResponse and extractTextFromResponse.                     *)
(***************************************************************************)
NoResultsMessage ==
  Str("No feedback items match your query. Try broadening your search criteria.")

\* mutant of QueryFailedMessage: the message of the fault of the store
UnderlyingFaultMessage == Str("D1_ERROR: no such column: value_score; DROP TABLE")

\* throw new Error('Database query failed')
QueryFailedMessage == Str("Database query failed")

ErrorResponse ==
  Str("I encountered an error processing your query. Please try rephrasing.")

DigestSize == 10
TopThemeCount == 3

\* r.themes.split(','): the themes cell is the names GROUP_CONCAT joined, held
\* as the names with "," between them
RECURSIVE split(_)
split(cell) ==
  IF cell = <<>> THEN <<"">>
  ELSE IF cell[1] = "," THEN <<"">> \o split(Tail(cell))
  ELSE IF Len(cell) = 1 THEN <<cell[1]>>
  ELSE <<cell[1]>> \o split(SubSeq(cell, 3, Len(cell)))    \* a name, then ","

\* themes[theme] = (themes[theme] || 0) + 1, on the entries of the object in
\* the order of their insertion
AddTheme(entries, theme) ==
  IF \E k \in 1..Len(entries) : entries[k].theme = theme
  THEN [k \in 1..Len(entries) |->
          IF entries[k].theme = theme
          THEN [entries[k] EXCEPT !.count = @ + 1]
          ELSE entries[k]]
  ELSE Append(entries, [theme |-> theme, count |-> 1])

RECURSIVE AddThemes(_, _)
AddThemes(entries, names) ==
  IF names = <<>> THEN entries
  ELSE AddThemes(AddTheme(entries, names[1]), Tail(names))

\* results.forEach(r => { if (r.themes) { ... } })
RECURSIVE CountThemes(_, _)
CountThemes(entries, rows) ==
  IF rows = <<>> THEN entries
  ELSE CountThemes(IF Truthy(rows[1].themes)
                   THEN AddThemes(entries, split(rows[1].themes.l))
                   ELSE entries,
                   Tail(rows))

\* .sort((a, b) => b[1] - a[1]): stable, descending by count
InsertByCount(sorted, e) ==
  LET before == {k \in 1..Len(sorted) : sorted[k].count < e.count}
      at == IF before = {} THEN Len(sorted) + 1
            ELSE CHOOSE k \in before : \A j \in before : k <= j
  IN SubSeq(sorted, 1, at - 1) \o <<e>> \o SubSeq(sorted, at, Len(sorted))

RECURSIVE SortByCount(_)
SortByCount(entries) ==
  IF entries = <<>> THEN <<>>
  ELSE InsertByCount(SortByCount(SubSeq(entries, 1, Len(entries) - 1)), entries[Len(entries)])

UrgencyCount(rows, u) == Cardinality({k \in 1..Len(rows) : rows[k].urgency = Str(u)})

\* the text a summary is made of, line by line
Summary(lines) == [t |-> "summary", lines |-> lines]

\* the fallback counts the themes of the first DigestSize results only
ThemesOfDigestOnly(rows) ==
  slice(SortByCount(CountThemes(<<>>, slice(rows, DigestSize))), TopThemeCount)

\* Object.entries(themes).sort(...).slice(0, 3)
TopThemes(rows) == slice(SortByCount(CountThemes(<<>>, rows)), TopThemeCount)

createFallbackResponse(rows) ==
  LET criticalCount == UrgencyCount(rows, "Critical")
      highCount == UrgencyCount(rows, "High")
      topThemes == TopThemes(rows)
  IN Summary(
       <<[line |-> "Found n feedback items matching your query.", n |-> Len(rows)]>>
       \o (IF criticalCount > 0
           THEN <<[line |-> "n Critical issues require immediate attention.", n |-> criticalCount]>>
           ELSE <<>>)
       \o (IF highCount > 0
           THEN <<[line |-> "n High priority items.", n |-> highCount]>>
           ELSE <<>>)
       \o (IF topThemes # <<>>
           THEN <<[line |-> "Top themes: ", themes |-> topThemes]>>
           ELSE <<>>))

\* createResultsSummary: the digest of the prompt
createResultsSummary(rows) == slice(rows, DigestSize)

\* mutant of extractTextFromResponse: the response property, whatever the shape
ExtractResponseProperty(r) == r.text

\* extractTextFromResponse, for a response that is not null or undefined
extractTextFromResponse(r) ==
  CASE r.shape = "string" -> r.text
    [] r.shape = "object" -> IF Truthy(r.text) THEN r.text ELSE Str("")
    [] r.shape = "array" -> OrElse(r.text, Str(""))
    [] r.shape = "emptyArray" -> Str("")
    [] OTHER -> Str("")

\* mutant of NoResults: the early return is never taken
NoResultsIgnored(rows) == FALSE

\* if (results.length === 0)
NoResults(rows) == Len(rows) = 0

\* formatResponse after its ai.run call ended with outcome o
SummaryFrom(rows, o) ==
  IF o.kind = "throw" THEN createFallbackResponse(rows)
  ELSE IF o.response.shape = "nullish" THEN createFallbackResponse(rows)   \* TypeError
  ELSE extractTextFromResponse(o.response)

(***************************************************************************)
(* The rows the store returns and the responses of ai.run of the model.    *)
(***************************************************************************)
ResultRows ==
  { [urgency |-> Str("Critical"), themes |-> List(<<"Billing Concerns", ",", "Data Loss">>)],
    [urgency |-> Str("High"), themes |-> List(<<"Data Loss", ",", "Mobile SDK", ",", "Feature Request">>)],
    [urgency |-> Str("Medium"), themes |-> Null],
    [urgency |-> Null, themes |-> List(<<"Feature Request">>)],
    [urgency |-> Str("Critical"), themes |-> List(<<"Mobile SDK", ",", "Mobile SDK">>)] }

RECURSIVE RowLists(_)
RowLists(n) ==
  IF n = 0 THEN {<<>>}
  ELSE LET shorter == RowLists(n - 1)
       IN shorter \cup { Append(a, r) : a \in {b \in shorter : Len(b) = n - 1}, r \in ResultRows }

\* a full digest of rows without themes
Padding == [k \in 1..DigestSize |-> [urgency |-> Str("Low"), themes |-> Null]]

\* what stmt.all() resolves to: { results: rows }, or an object without results
StoreResults ==
  { List(rs) : rs \in RowLists(MaxResultRows) }
  \cup { List(Padding \o rs) : rs \in RowLists(MaxResultRows) }
  \cup { Undefined }

SummaryResponses ==
  { [shape |-> sh, text |-> Str("Two critical billing issues need attention.")] :
      sh \in {"string", "object", "array"} }
  \cup { [shape |-> sh, text |-> Str("")] : sh \in {"string", "object", "array"} }
  \cup { [shape |-> sh, text |-> Undefined] : sh \in {"array", "emptyArray", "other", "nullish"} }

SummaryOutcomes == {Throws} \cup { Returns(r) : r \in SummaryResponses }

\* the queries of the runs of processQuery that go on to the store
SummaryQueries == { q \in QueryTexts : Len(q) <= 3 }

(***************************************************************************)
(* SearchAgent.processQuery, steps 3 and 4.                                *)
(***************************************************************************)
\* return { success: true, ... }
QuerySucceeded(rows, response) ==
  [ success |-> TRUE, query |-> userQuery, intent |-> intent, results |-> rows,
    response |-> response, count |-> Len(rows) ]

\* catch (error) { return { success: false, error: error.message, ... } }
QueryFailed(message) ==
  [ success |-> FALSE, error |-> message, response |-> ErrorResponse ]

\* executeQuery: stmt.all() resolves to r; formatResponse runs to its return
\* (no rows) or to its await of ai.run
ExecuteQueryReturns(r) ==
  /\ searchPc = "built"
  /\ LET rows == OrElse(r, List(<<>>)).l       \* result.results || []
     IN /\ results' = List(rows)
        /\ storeStatements' = Append(storeStatements, sqlQuery)
        /\ IF NoResults(rows)
           THEN /\ searchResult' = QuerySucceeded(rows, NoResultsMessage)
                /\ searchPc' = "returned"
                /\ UNCHANGED <<summaryRequests, summaryCall>>
           ELSE /\ summaryRequests' = Append(summaryRequests,
                                             [digest |-> createResultsSummary(rows)])
                /\ summaryCall' = [st |-> "pending"]
                /\ searchPc' = "summarizing"
                /\ UNCHANGED searchResult
  /\ UNCHANGED <<userQuery, intent, sqlQuery, analyzeVars, uploadVars, functionVars, batchVars>>

\* mutant of ExecuteQueryThrows: the statement is run once more before
\* executeQuery gives up
ExecuteQueryThrowsAfterRetry ==
  /\ searchPc = "built"
  /\ storeStatements' = storeStatements \o <<sqlQuery, sqlQuery>>
  /\ searchResult' = QueryFailed(QueryFailedMessage)
  /\ searchPc' = "returned"
  /\ UNCHANGED <<userQuery, intent, sqlQuery, results, summaryRequests, summaryCall,
                 analyzeVars, uploadVars, functionVars, batchVars>>

\* executeQuery: the store call throws; executeQuery throws 'Database query
\* failed' and processQuery catches it
ExecuteQueryThrows ==
  /\ searchPc = "built"
  /\ storeStatements' = Append(storeStatements, sqlQuery)
  /\ searchResult' = QueryFailed(QueryFailedMessage)
  /\ searchPc' = "returned"
  /\ UNCHANGED <<userQuery, intent, sqlQuery, results, summaryRequests, summaryCall,
                 analyzeVars, uploadVars, functionVars, batchVars>>

\* formatResponse: its ai.run call ends with outcome o; processQuery returns
FormatResponseSettles(o) ==
  /\ searchPc = "summarizing"
  /\ summaryCall' = [st |-> "settled", outcome |-> o]
  /\ searchResult' = QuerySucceeded(results.l, SummaryFrom(results.l, o))
  /\ searchPc' = "returned"
  /\ UNCHANGED <<userQuery, intent, sqlQuery, results, summaryRequests, storeStatements, analyzeVars, uploadVars, functionVars, batchVars>>

QueryNext ==
  \/ \E q \in SummaryQueries : ParseQueryIntent(q)
  \/ GenerateSQLStep
  \/ \E r \in StoreResults : ExecuteQueryReturns(r)
  \/ ExecuteQueryThrows
  \/ \E o \in SummaryOutcomes : FormatResponseSettles(o)

QueryInit == SearchIdle /\ AnalyzeIdle /\ UploadIdle /\ FunctionsIdle /\ BatchIdle

SpecQuery == QueryInit /\ [][QueryNext]_vars

(***************************************************************************)
(* Properties of processQuery and the Result Summarizer.                   *)
(***************************************************************************)
QueryReturned == searchPc = "returned"

\* the store call of executeQuery threw: processQuery returned without rows
StoreCallFailed == QueryReturned /\ results = Undefined

\* C12: when the store call fails inside executeQuery, processQuery returns
\* (it does not throw) success false with the error text exactly
\* 'Database query failed', no results, and no request was sent to the
\* text-completion service.
QueryFailureIsGeneric ==
  StoreCallFailed =>
    /\ searchResult.success = FALSE
    /\ searchResult.error = Str("Database query failed")
    /\ DOMAIN searchResult = {"success", "error", "response"}
    /\ summaryRequests = <<>>
    /\ summaryCall = NoCall

\* the store call failed for a query with filters
StoreCallFailedOnFilteredQuery ==
  /\ StoreCallFailed
  /\ sqlQuery.params # <<>>

IsString(v) == v.t \in {"str", "summary"}

SummaryCallThrew == summaryCall.st = "settled" /\ summaryCall.outcome = Throws

EmptySummaryReturned ==
  /\ QueryReturned
  /\ summaryCall.st = "settled" /\ summaryCall.outcome # Throws
  /\ summaryCall.outcome.response.shape = "other"
  /\ searchResult.response = Str("")

StoreReturnedNoRows == QueryReturned /\ Truthy(results) /\ Len(results.l) = 0

\* C14: when the store returns zero rows, the response is the fixed message
\* 'No feedback items match your query. Try broadening your search criteria.'
\* verbatim, and no request is sent to the text-completion service.
NoResultsMessageVerbatim ==
  StoreReturnedNoRows =>
    /\ searchResult.success = TRUE
    /\ searchResult.count = 0
    /\ searchResult.response =
         Str("No feedback items match your query. Try broadening your search criteria.")
    /\ summaryRequests = <<>>
    /\ summaryCall = NoCall

\* zero rows came back for a query with filters
NoRowsForFilteredQuery ==
  /\ StoreReturnedNoRows
  /\ sqlQuery.params # <<>>
  /\ searchResult.response.t = "str"

\* the theme names of all results, in the order they are met
RECURSIVE ThemeOccurrences(_)
ThemeOccurrences(rows) ==
  IF rows = <<>> THEN <<>>
  ELSE (IF Truthy(rows[1].themes) THEN split(rows[1].themes.l) ELSE <<>>)
       \o ThemeOccurrences(Tail(rows))

OccurrenceCount(occ, x) == Cardinality({k \in 1..Len(occ) : occ[k] = x})
FirstSeen(occ, x) == CHOOSE k \in 1..Len(occ) : occ[k] = x /\ \A j \in 1..(k - 1) : occ[j] # x

\* a ranks before b: more frequent, or as frequent and seen first
RanksBefore(occ, a, b) ==
  \/ OccurrenceCount(occ, a) > OccurrenceCount(occ, b)
  \/ /\ OccurrenceCount(occ, a) = OccurrenceCount(occ, b)
     /\ FirstSeen(occ, a) < FirstSeen(occ, b)

FallbackLines == searchResult.response.lines

LinesOf(text) == {k \in 1..Len(FallbackLines) : FallbackLines[k].line = text}

CriticalLine == "n Critical issues require immediate attention."
HighLine == "n High priority items."
ThemesLine == "Top themes: "

\* the themes the fallback summary lists, with their counts
ListedThemes ==
  IF LinesOf(ThemesLine) = {} THEN <<>>
  ELSE FallbackLines[CHOOSE k \in LinesOf(ThemesLine) : TRUE].themes

FallbackSummarized ==
  /\ QueryReturned /\ SummaryCallThrew
  /\ searchResult.response.t = "summary"

\* the listed themes are the three most frequent of all results, in descending
\* count, ties in first-seen order, each with its count
ThemesRanked ==
  LET occ == ThemeOccurrences(results.l)
      names == {occ[k] : k \in 1..Len(occ)}
      top == ListedThemes
      listed == {top[k].theme : k \in 1..Len(top)}
  IN /\ Len(top) = (IF Cardinality(names) < 3 THEN Cardinality(names) ELSE 3)
     /\ Cardinality(listed) = Len(top)
     /\ listed \subseteq names
     /\ \A k \in 1..Len(top) : top[k].count = OccurrenceCount(occ, top[k].theme)
     /\ \A i, j \in 1..Len(top) : i < j => RanksBefore(occ, top[i].theme, top[j].theme)
     /\ \A x \in names \ listed : \A k \in 1..Len(top) : RanksBefore(occ, top[k].theme, x)

\* the number of results of urgency u is reported on its line
CountReported(text, u) ==
  \E k \in LinesOf(text) : FallbackLines[k].n = UrgencyCount(results.l, u)

\* C15, as stated: the fallback summary reports the number of Critical and of
\* High results, then the three most frequent themes counted over all results,
\* in descending count with ties in first-seen order, each with its count.
FallbackReportsCountsAndThemes ==
  FallbackSummarized =>
    /\ CountReported(CriticalLine, "Critical")
    /\ CountReported(HighLine, "High")
    /\ ThemesRanked

\* C15, amended: the number of Critical results and the number of High results
\* are each reported when it is not zero and left out when it is zero, the
\* Critical line before the High line, and the themes line, last, is as stated.
FallbackReportsNonzeroCountsAndThemes ==
  FallbackSummarized =>
    /\ FallbackLines[1].n = Len(results.l)
    /\ (UrgencyCount(results.l, "Critical") > 0) <=> CountReported(CriticalLine, "Critical")
    /\ (UrgencyCount(results.l, "Critical") = 0) <=> (LinesOf(CriticalLine) = {})
    /\ (UrgencyCount(results.l, "High") > 0) <=> CountReported(HighLine, "High")
    /\ (UrgencyCount(results.l, "High") = 0) <=> (LinesOf(HighLine) = {})
    /\ \A c \in LinesOf(CriticalLine), h \in LinesOf(HighLine), t \in LinesOf(ThemesLine) :
         1 < c /\ c < h /\ h < t
    /\ \A t \in LinesOf(ThemesLine) : t = Len(FallbackLines)
    /\ Cardinality(LinesOf(CriticalLine)) <= 1
    /\ Cardinality(LinesOf(HighLine)) <= 1
    /\ ThemesRanked

\* a fallback summary over more results than the digest holds, whose themes
\* come from the results past the digest, with a tie among the listed themes
ThemesRankedPastDigest ==
  /\ FallbackSummarized
  /\ Len(results.l) > DigestSize
  /\ Len(ListedThemes) = 3
  /\ ListedThemes[2].count = ListedThemes[3].count
  /\ Cardinality({x \in {ThemeOccurrences(results.l)[k] :
                           k \in 1..Len(ThemeOccurrences(results.l))} : TRUE}) > 3

(***************************************************************************)
(* DataCleaning: inferUrgencyFromText.                                     *)
(***************************************************************************)
CriticalTextKeywords ==
  { <<"u", "r", "g", "e", "n", "t">>, <<"c", "r", "i", "t", "i", "c", "a", "l">>, <<"!", "!", "!">>, <<"o", "u", "t", "a", "g", "e">>, <<"p", "r", "o", "d", "u", "c", "t", "i", "o", "n", " ", "d", "o", "w", "n">> }

HighTextKeywords == { <<"b", "l", "o", "c", "k", "i", "n", "g">>, <<"c", "a", "n", "'", "t">>, <<"b", "r", "o", "k", "e", "n">>, <<"f", "a", "i", "l", "i", "n", "g">> }

LowTextKeywords == { <<"n", "i", "c", "e", " ", "t", "o", " ", "h", "a", "v", "e">>, <<"s", "u", "g", "g", "e", "s", "t", "i", "o", "n">> }

\* mutant of inferUrgencyFromText: the low-priority keywords are checked first
inferUrgencyFromTextLowFirst(text) ==
  LET lowerText == toLowerCase(text)
  IN IF includesAny(lowerText, LowTextKeywords) THEN "Low"
     ELSE IF includesAny(lowerText, CriticalTextKeywords) THEN "Critical"
     ELSE IF includesAny(lowerText, HighTextKeywords) THEN "High"
     ELSE "Medium"

inferUrgencyFromText(text) ==
  LET lowerText == toLowerCase(text)
  IN IF includesAny(lowerText, CriticalTextKeywords) THEN "Critical"
     ELSE IF includesAny(lowerText, HighTextKeywords) THEN "High"
     ELSE IF includesAny(lowerText, LowTextKeywords) THEN "Low"
     ELSE "Medium"

(***************************************************************************)
(* The functions called on their own, on the texts of the model.           *)
(***************************************************************************)
ScoredWords ==
  << <<"L", "o", "v", "e">>,
     <<"b", "r", "o", "k", "e", "n">>,
     <<"b", "u", "t">>,
     <<"f", "r", "u", "s", "t", "r", "a", "t", "e", "d">>,
     <<"b", "u", "g">>,
     <<"s", "u", "g", "g", "e", "s", "t", "i", "o", "n">>,
     <<"U", "R", "G", "E", "N", "T">>,
     <<"c", "a", "n", "'", "t">>,
     <<"p", "r", "o", "d", "u", "c", "t", "i", "o", "n", " ", "d", "o", "w", "n">>,
     <<"s", "e", "c", "u", "r", "i", "t", "y">>,
     <<"c", "u", "s", "t", "o", "m", "e", "r">>,
     <<"!", "!", "!">> >>

ScoredTexts ==
  { JoinWords([k \in 1..Len(p) |-> ScoredWords[p[k]]]) :
      p \in Picks(MaxFeedbackWords, Len(ScoredWords)) }

\* a function is called on its own
Called(fn, args) ==
  /\ fnCall.fn = "none"
  /\ fnCall' = [fn |-> fn, args |-> args]
  /\ UNCHANGED <<searchVars, analyzeVars, uploadVars, batchVars>>

InferSentiment(t) ==
  /\ Called("inferSentiment", [text |-> t])
  /\ fnResult' = Str(inferSentiment(t))

InferUrgency(t) ==
  /\ Called("inferUrgency", [text |-> t])
  /\ fnResult' = Str(inferUrgency(t))

InferUrgencyFromText(t) ==
  /\ Called("inferUrgencyFromText", [text |-> t])
  /\ fnResult' = Str(inferUrgencyFromText(t))

(***************************************************************************)
(* DataCleaning: calculateUrgencyScore and calculateValueScore.            *)
(***************************************************************************)
MinScore == 1
MaxScore == 10
DefaultScore == 5

\* mutant of Clamp: the score as computed
NoClamp(score) == score

\* Math.min(10, Math.max(1, score))
Clamp(score) ==
  LET atLeast == IF score < MinScore THEN MinScore ELSE score
  IN IF atLeast > MaxScore THEN MaxScore ELSE atLeast

\* urgencyScores[urgency] || 5
UrgencyBase(urgency) ==
  CASE urgency = Str("Critical") -> 10
    [] urgency = Str("High") -> 8
    [] urgency = Str("Medium") -> 5
    [] urgency = Str("Low") -> 3
    [] OTHER -> DefaultScore

calculateUrgencyScore(urgency, feedback, customerTier) ==
  LET text == toLowerCase(feedback)
      base == UrgencyBase(urgency)
      s1 == base + (IF includes(text, <<"u", "r", "g", "e", "n", "t">>) \/ includes(text, <<"c", "r", "i", "t", "i", "c", "a", "l">>) THEN 2 ELSE 0)
      s2 == s1 + (IF includes(text, <<"b", "l", "o", "c", "k", "i", "n", "g">>) \/ includes(text, <<"c", "a", "n", "'", "t">>) THEN 1 ELSE 0)
      s3 == s2 + (IF includes(text, <<"p", "r", "o", "d", "u", "c", "t", "i", "o", "n">>) \/ includes(text, <<"o", "u", "t", "a", "g", "e">>) THEN 2 ELSE 0)
      s4 == s3 + (IF includes(text, <<"d", "a", "t", "a", " ", "l", "o", "s", "s">>) \/ includes(text, <<"s", "e", "c", "u", "r", "i", "t", "y">>) THEN 2 ELSE 0)
      s5 == s4 + (IF customerTier = Str("Enterprise") THEN 1 ELSE 0)
  IN Clamp(s5)

\* tierScores[customerTier] || 5
TierBase(customerTier) ==
  CASE customerTier = Str("Enterprise") -> 9
    [] customerTier = Str("Pro") -> 7
    [] customerTier = Str("Free") -> 4
    [] OTHER -> DefaultScore

\* const { likes = 0, upvotes = 0, comments = 0 } = engagementMetrics
MetricOr0(metrics, f) == IF metrics[f] = Undefined THEN 0 ELSE metrics[f].n

\* likes + upvotes * 2 + comments
TotalEngagement(metrics) ==
  MetricOr0(metrics, "likes") + MetricOr0(metrics, "upvotes") * 2 + MetricOr0(metrics, "comments")

\* mutant of EngagementBoost: the thresholds are met at 50 and at 20
EngagementBoostFromThreshold(totalEngagement) ==
  IF totalEngagement >= 50 THEN 2
  ELSE IF totalEngagement >= 20 THEN 1
  ELSE 0

\* if (totalEngagement > 50) score += 2; else if (totalEngagement > 20) score += 1
EngagementBoost(totalEngagement) ==
  IF totalEngagement > 50 THEN 2
  ELSE IF totalEngagement > 20 THEN 1
  ELSE 0

calculateValueScore(customerTier, feedback, engagementMetrics) ==
  LET base == TierBase(customerTier)
      s1 == base + EngagementBoost(TotalEngagement(engagementMetrics))
      text == toLowerCase(feedback)
      s2 == s1 + (IF includes(text, <<"r", "e", "v", "e", "n", "u", "e">>) \/ includes(text, <<"c", "u", "s", "t", "o", "m", "e", "r">>) THEN 1 ELSE 0)
      s3 == s2 + (IF includes(text, <<"c", "o", "m", "p", "l", "i", "a", "n", "c", "e">>) \/ includes(text, <<"s", "e", "c", "u", "r", "i", "t", "y">>) THEN 1 ELSE 0)
  IN Clamp(s3)

\* the urgency categories, the tiers and the engagement metrics of the model
ScoredUrgencies ==
  { Str("Critical"), Str("High"), Str("Medium"), Str("Low"), Str("Blocker"), Undefined }

ScoredTiers == { Str("Enterprise"), Str("Pro"), Str("Free"), Str("Partner"), Undefined }

NoMetrics == [likes |-> Undefined, upvotes |-> Undefined, comments |-> Undefined]

ScoredMetrics ==
  { NoMetrics,
    [NoMetrics EXCEPT !.likes = Num(20)],
    [NoMetrics EXCEPT !.likes = Num(21)],
    [NoMetrics EXCEPT !.likes = Num(50)],
    [NoMetrics EXCEPT !.likes = Num(51)],
    [NoMetrics EXCEPT !.upvotes = Num(10), !.comments = Num(1)],
    [NoMetrics EXCEPT !.upvotes = Num(25), !.comments = Num(1)],
    [likes |-> Num(-5), upvotes |-> Num(0), comments |-> Num(3)],
    [likes |-> Num(4000), upvotes |-> Num(900), comments |-> Num(120)] }

CalculateUrgencyScore(u, t, tier) ==
  /\ Called("calculateUrgencyScore", [urgency |-> u, text |-> t, tier |-> tier])
  /\ fnResult' = Num(calculateUrgencyScore(u, t, tier))

CalculateValueScore(tier, t, metrics) ==
  /\ Called("calculateValueScore", [tier |-> tier, text |-> t, metrics |-> metrics])
  /\ fnResult' = Num(calculateValueScore(tier, t, metrics))

(***************************************************************************)
(* DataCleaning: standardizeDate.  A Date is invalid or a time of the      *)
(* proleptic Gregorian calendar, held as the day from 1970-01-01 and the   *)
(* millisecond of that day; the local time zone is UTC.                    *)
(***************************************************************************)
InvalidDate == [valid |-> FALSE]
Date(day, ms) == [valid |-> TRUE, day |-> day, ms |-> ms]

IsLeapYear(y) == (y % 4 = 0 /\ y % 100 # 0) \/ y % 400 = 0

DaysInMonth(y, m) ==
  IF m = 2 THEN (IF IsLeapYear(y) THEN 29 ELSE 28)
  ELSE IF m \in {4, 6, 9, 11} THEN 30 ELSE 31

\* the day from 1970-01-01 of the civil date y-m-d
DayFromCivil(y, m, d) ==
  LET yy == IF m <= 2 THEN y - 1 ELSE y
      era == yy \div 400
      yoe == yy - era * 400
      mp == IF m > 2 THEN m - 3 ELSE m + 9
      doy == (153 * mp + 2) \div 5 + d - 1
      doe == yoe * 365 + yoe \div 4 - yoe \div 100 + doy
  IN era * 146097 + doe - 719468

\* the civil date of a day from 1970-01-01
CivilFromDay(day) ==
  LET z == day + 719468
      era == z \div 146097
      doe == z - era * 146097
      yoe == (doe - doe \div 1460 + doe \div 36524 - doe \div 146096) \div 365
      doy == doe - (365 * yoe + yoe \div 4 - yoe \div 100)
      mp == (5 * doy + 2) \div 153
      d == doy - (153 * mp + 2) \div 5 + 1
      m == IF mp < 10 THEN mp + 3 ELSE mp - 9
      y == yoe + era * 400 + (IF m <= 2 THEN 1 ELSE 0)
  IN [y |-> y, m |-> m, d |-> d]

DigitChars == <<"0", "1", "2", "3", "4", "5", "6", "7", "8", "9">>

\* String(n) for n >= 0
RECURSIVE NatToString(_)
NatToString(n) ==
  IF n < 10 THEN <<DigitChars[n + 1]>>
  ELSE NatToString(n \div 10) \o <<DigitChars[(n % 10) + 1]>>

\* s.padStart(width, '0')
RECURSIVE padStart(_, _)
padStart(s, width) == IF Len(s) >= width THEN s ELSE padStart(<<"0">> \o s, width)

\* Date.prototype.toISOString of a valid date of the years 0 to 9999:
\* YYYY-MM-DDTHH:mm:ss.sssZ
toISOString(date) ==
  LET civil == CivilFromDay(date.day)
      sec == date.ms \div 1000
      pad(n, w) == padStart(NatToString(n), w)
  IN pad(civil.y, 4) \o <<"-">> \o pad(civil.m, 2) \o <<"-">> \o pad(civil.d, 2) \o <<"T">>
       \o pad(sec \div 3600, 2) \o <<":">> \o pad((sec \div 60) % 60, 2) \o <<":">>
       \o pad(sec % 60, 2) \o <<".">> \o pad(date.ms % 1000, 3) \o <<"Z">>

\* the characters of s from position i on
From(s, i) == SubSeq(s, i, Len(s))

\* /\d{n}/ at position i of s
DigitsAt(s, i, n) == i + n - 1 <= Len(s) /\ \A k \in i..(i + n - 1) : IsDigit(s[k])

CharAt(s, i, c) == i <= Len(s) /\ s[i] = c

\* the length of the run of digits at the start of s
RECURSIVE LeadingDigits(_)
LeadingDigits(s) == IF s # <<>> /\ IsDigit(s[1]) THEN 1 + LeadingDigits(Tail(s)) ELSE 0

\* str.match(/^\d{4}-\d{2}-\d{2}/)
MatchesIsoDate(str) ==
  DigitsAt(str, 1, 4) /\ CharAt(str, 5, "-") /\ DigitsAt(str, 6, 2) /\ CharAt(str, 8, "-")
    /\ DigitsAt(str, 9, 2)

\* str.match(/^\d{1,2}\/\d{1,2}\/\d{4}/)
MatchesSlashDate(str) ==
  LET a == LeadingDigits(str)
      b == LeadingDigits(From(str, a + 2))
  IN /\ a \in 1..2 /\ CharAt(str, a + 1, "/")
     /\ b \in 1..2 /\ CharAt(str, a + b + 2, "/")
     /\ DigitsAt(str, a + b + 3, 4)

\* str.split(/[\s\/]/)
RECURSIVE splitOnSpaceOrSlash(_)
splitOnSpaceOrSlash(s) ==
  IF \A i \in 1..Len(s) : ~(IsSpace(s[i]) \/ s[i] = "/") THEN <<s>>
  ELSE LET at == CHOOSE i \in 1..Len(s) :
                   /\ IsSpace(s[i]) \/ s[i] = "/"
                   /\ \A j \in 1..(i - 1) : ~(IsSpace(s[j]) \/ s[j] = "/")
       IN <<SubSeq(s, 1, at - 1)>> \o splitOnSpaceOrSlash(From(s, at + 1))

\* parseInt(part) of a part that starts with a digit
parseIntPrefix(part) == parseInt(SubSeq(part, 1, LeadingDigits(part)))

\* HH:mm or HH:mm:ss, with an optional Z: the millisecond of the day, or -1
TimeOfDay(t) ==
  LET body == IF t # <<>> /\ t[Len(t)] = "Z" THEN SubSeq(t, 1, Len(t) - 1) ELSE t
      hh == parseInt(SubSeq(body, 1, 2))
      mm == parseInt(SubSeq(body, 4, 5))
      ss == IF Len(body) = 8 THEN parseInt(SubSeq(body, 7, 8)) ELSE 0
      shaped ==
        /\ Len(body) \in {5, 8}
        /\ DigitsAt(body, 1, 2) /\ CharAt(body, 3, ":") /\ DigitsAt(body, 4, 2)
        /\ Len(body) = 8 => CharAt(body, 6, ":") /\ DigitsAt(body, 7, 2)
  IN IF shaped /\ hh <= 23 /\ mm <= 59 /\ ss <= 59 THEN ((hh * 60 + mm) * 60 + ss) * 1000 ELSE -1

\* what an engine's own parser may make of a string that is not in the
\* ISO format: its result is implementation-defined
LegacyDate == { InvalidDate, Date(DayFromCivil(2001, 1, 1), 0) }

\* new Date(str): the ISO format YYYY-MM-DD, optionally followed by T and a
\* time, is parsed as specified; a day past the end of its month, a space in
\* the place of T and any other text are left to the engine
NewDate(str) ==
  IF ~MatchesIsoDate(str) THEN (IF \E i \in 1..Len(str) : IsDigit(str[i]) THEN LegacyDate
                                ELSE {InvalidDate})
  ELSE LET y == parseInt(SubSeq(str, 1, 4))
           m == parseInt(SubSeq(str, 6, 7))
           d == parseInt(SubSeq(str, 9, 10))
           ms == IF Len(str) = 10 THEN 0 ELSE TimeOfDay(From(str, 12))
           date == Date(DayFromCivil(y, m, 1) + d - 1, ms)
       IN IF m \notin 1..12 \/ d \notin 1..31 \/ ms = -1 THEN {InvalidDate}
          ELSE IF Len(str) > 10 /\ str[11] \notin {"T", " "} THEN {InvalidDate}
          ELSE IF d > DaysInMonth(y, m) \/ (Len(str) > 10 /\ str[11] = " ")
               THEN {InvalidDate, date}
          ELSE {date}

IsLetter(c) == c \in DOMAIN UpperToLower \/ \E u \in DOMAIN UpperToLower : UpperToLower[u] = c

\* str.match(/\d{1,2}-[A-Za-z]{3}-\d{4}/)
MatchesDayMonthYear(str) ==
  \E i \in 1..Len(str) :
    /\ IsDigit(str[i]) /\ CharAt(str, i + 1, "-")
    /\ i + 4 <= Len(str) /\ \A k \in (i + 2)..(i + 4) : IsLetter(str[k])
    /\ CharAt(str, i + 5, "-") /\ DigitsAt(str, i + 6, 4)

\* !isNaN(str) for a sign, digits and an optional fraction; other texts of the
\* model are not numbers
IsNumeric(str) ==
  LET unsigned == IF str # <<>> /\ str[1] = "-" THEN Tail(str) ELSE str
      whole == LeadingDigits(unsigned)
      rest == From(unsigned, whole + 1)
  IN whole > 0 /\ (rest = <<>> \/ (rest[1] = "." /\ Len(rest) > 1 /\ DigitsAt(rest, 2, Len(rest) - 1)))

\* parseFloat(str) of a numeric string of fewer than 6 characters, in
\* thousandths
parseFloatThousandths(str) ==
  LET unsigned == IF str[1] = "-" THEN Tail(str) ELSE str
      whole == LeadingDigits(unsigned)
      fraction == From(unsigned, whole + 2)
      scaled == SubSeq(fraction \o <<"0", "0", "0">>, 1, 3)
      value == parseInt(SubSeq(unsigned, 1, whole)) * 1000 + parseInt(scaled)
  IN IF str[1] = "-" THEN -value ELSE value

MsPerDay == 86400000

\* new Date(excelEpoch.getTime() + parseFloat(str) * 86400000), the epoch
\* being new Date(1899, 11, 30)
ExcelDate(str) ==
  LET serial == parseFloatThousandths(str)
  IN Date(DayFromCivil(1899, 12, 30) + serial \div 1000, (serial % 1000) * (MsPerDay \div 1000))

\* Format 2: the parts of a slash date put together in the ISO format; the
\* first number is the day unless the second is above 12
SlashDateAsIso(str) ==
  LET parts == splitOnSpaceOrSlash(str)
      day == parseIntPrefix(parts[1])
      month == parseIntPrefix(parts[2])
      year == parseIntPrefix(parts[3])
      time == IF Len(parts) >= 4 /\ parts[4] # <<>> THEN parts[4] ELSE <<"0", "0", ":", "0", "0", ":", "0", "0">>
      iso(mm, dd) == NatToString(year) \o <<"-">> \o padStart(NatToString(mm), 2) \o <<"-">>
                       \o padStart(NatToString(dd), 2) \o <<"T">> \o time
  IN IF day > 12 THEN iso(month, day)
     ELSE IF month > 12 THEN iso(day, month)
     ELSE iso(month, day)

Thrown(name) == [t |-> "thrown", name |-> name]

\* date.toISOString(): a RangeError for an invalid date
toISOStringOrThrow(date) ==
  IF date.valid THEN Text(toISOString(date)) ELSE Thrown("RangeError")

\* String(dateStr) of a number or a string
String(v) ==
  IF v.t = "num" THEN (IF v.n < 0 THEN <<"-">> \o NatToString(-v.n) ELSE NatToString(v.n))
  ELSE v.c

\* if (isNaN(date.getTime())) return null; return date.toISOString()
ValidatedIso(date) == IF ~date.valid THEN Null ELSE toISOStringOrThrow(date)

\* standardizeDate: the values it may return for dateStr, one per Date the
\* engine may make of the string; catch (e) { return null }
standardizeDate(dateStr) ==
  IF ~Truthy(dateStr) \/ dateStr = Text(<<"N", "U", "L", "L">>) THEN {Null}
  ELSE LET str == trim(String(dateStr))
           dates ==
             IF includes(str, <<"T">>) \/ MatchesIsoDate(str) THEN NewDate(str)
             ELSE IF MatchesSlashDate(str) THEN NewDate(SlashDateAsIso(str))
             ELSE IF MatchesDayMonthYear(str) THEN NewDate(str)
             ELSE IF IsNumeric(str) /\ Len(str) < 6 THEN {ExcelDate(str)}
             ELSE NewDate(str)
       IN IF str = <<>> \/ str = <<"n", "u", "l", "l">> \/ str = <<"u", "n", "d", "e", "f", "i", "n", "e", "d">> THEN {Null}
          ELSE { IF ValidatedIso(date).t = "thrown" THEN Null ELSE ValidatedIso(date) :
                   date \in dates }

\* the column of the raw date of each source
DateColumn ==
  [ Support |-> "Created Date", Discord |-> "timestamp", GitHub |-> "Created",
    Email |-> "Date Received", Twitter |-> "Timestamp", Forum |-> "Posted Date" ]

\* mutant of created_date: the parsed date as it is
created_dateAsParsed(createdDate, now) == createdDate

\* created_date: createdDate || new Date().toISOString()
created_date(createdDate, now) == OrElse(createdDate, Text(toISOString(now)))

\* the created_date of the record a processor makes of a row at time now
ProcessedCreatedDate(source, row, now) ==
  { created_date(createdDate, now) : createdDate \in standardizeDate(row[DateColumn[source]]) }

\* the raw dates of the model
RawDates ==
  { Undefined, Null, Num(0), Num(45000), Text(<<>>), Text(<<"N", "U", "L", "L">>), Text(<<"n", "u", "l", "l">>),
    Text(<<" ", " ">>), Text(<<"u", "n", "d", "e", "f", "i", "n", "e", "d">>), Text(<<"n", "o", "t", " ", "a", " ", "d", "a", "t", "e">>), Text(<<"T", "u", "e", "s", "d", "a", "y">>),
    Text(<<"2", "0", "2", "4", "-", "0", "1", "-", "1", "5", "T", "1", "0", ":", "3", "0", ":", "0", "0", "Z">>), Text(<<"2", "0", "2", "4", "-", "0", "1", "-", "1", "5", " ", "1", "0", ":", "3", "0", ":", "0", "0">>), Text(<<" ", "2", "0", "2", "4", "-", "0", "2", "-", "2", "9", " ">>),
    Text(<<"2", "0", "2", "4", "-", "1", "3", "-", "4", "5">>), Text(<<"2", "0", "2", "3", "-", "0", "2", "-", "3", "0">>), Text(<<"2", "0", "2", "4", "-", "0", "1", "-", "1", "5", "T", "2", "5", ":", "0", "0">>),
    Text(<<"1", "5", "/", "0", "1", "/", "2", "0", "2", "4">>), Text(<<"0", "1", "/", "1", "5", "/", "2", "0", "2", "4">>), Text(<<"5", "/", "6", "/", "2", "0", "2", "4">>),
    Text(<<"1", "5", "/", "0", "1", "/", "2", "0", "2", "4", " ", "1", "0", ":", "3", "0", ":", "0", "0">>), Text(<<"3", "2", "/", "1", "3", "/", "2", "0", "2", "4">>), Text(<<"1", "5", "/", "0", "1", "/", "0", "0", "2", "4">>),
    Text(<<"1", "5", "-", "J", "a", "n", "-", "2", "0", "2", "4">>), Text(<<"J", "a", "n", "u", "a", "r", "y", " ", "1", "5", ",", " ", "2", "0", "2", "4">>),
    Text(<<"4", "5", "0", "0", "0">>), Text(<<"4", "5", ".", "5">>), Text(<<"-", "1", ".", "2", "5">>), Text(<<"4", "5", "0", "0", "0", "0">>) }

IngestionTimes == { Date(DayFromCivil(2026, 11, 2), 45296789) }

DateColumns == { DateColumn[s] : s \in DOMAIN DateColumn }

\* the rows of the model: one raw date, under one of the date columns
DatedRows ==
  { [c \in DateColumns |-> IF c = column THEN raw ELSE Undefined] :
      column \in DateColumns, raw \in RawDates }

StandardizeDate(raw) ==
  /\ Called("standardizeDate", [dateStr |-> raw])
  /\ \E r \in standardizeDate(raw) : fnResult' = r

ProcessCreatedDate(source, row, now) ==
  /\ Called("created_date", [source |-> source, row |-> row, now |-> now])
  /\ \E r \in ProcessedCreatedDate(source, row, now) : fnResult' = r

(***************************************************************************)
(* DataCleaning: the product area of a row.                                *)
(***************************************************************************)
\* const productMap = { ... }
productMap ==
  << [key |-> <<"w", "o", "r", "k", "e", "r", "s">>, name |-> <<"W", "o", "r", "k", "e", "r", "s">>],
     [key |-> <<"w", "o", "r", "k", "e", "r", "s", " ", "a", "i">>, name |-> <<"W", "o", "r", "k", "e", "r", "s", " ", "A", "I">>],
     [key |-> <<"w", "o", "r", "k", "e", "r", "s", "-", "a", "i">>, name |-> <<"W", "o", "r", "k", "e", "r", "s", " ", "A", "I">>],
     [key |-> <<"w", "o", "r", "k", "e", "r", "s", "a", "i">>, name |-> <<"W", "o", "r", "k", "e", "r", "s", " ", "A", "I">>],
     [key |-> <<"d", "1">>, name |-> <<"D", "1", " ", "D", "a", "t", "a", "b", "a", "s", "e">>],
     [key |-> <<"d", "1", " ", "d", "a", "t", "a", "b", "a", "s", "e">>, name |-> <<"D", "1", " ", "D", "a", "t", "a", "b", "a", "s", "e">>],
     [key |-> <<"d", "1", "-", "d", "a", "t", "a", "b", "a", "s", "e">>, name |-> <<"D", "1", " ", "D", "a", "t", "a", "b", "a", "s", "e">>],
     [key |-> <<"w", "o", "r", "k", "f", "l", "o", "w", "s">>, name |-> <<"W", "o", "r", "k", "f", "l", "o", "w", "s">>],
     [key |-> <<"w", "o", "r", "k", "f", "l", "o", "w">>, name |-> <<"W", "o", "r", "k", "f", "l", "o", "w", "s">>],
     [key |-> <<"r", "2">>, name |-> <<"R", "2", " ", "S", "t", "o", "r", "a", "g", "e">>],
     [key |-> <<"r", "2", " ", "s", "t", "o", "r", "a", "g", "e">>, name |-> <<"R", "2", " ", "S", "t", "o", "r", "a", "g", "e">>],
     [key |-> <<"k", "v">>, name |-> <<"K", "V", " ", "S", "t", "o", "r", "a", "g", "e">>],
     [key |-> <<"k", "v", " ", "s", "t", "o", "r", "a", "g", "e">>, name |-> <<"K", "V", " ", "S", "t", "o", "r", "a", "g", "e">>],
     [key |-> <<"p", "a", "g", "e", "s">>, name |-> <<"P", "a", "g", "e", "s">>],
     [key |-> <<"c", "l", "o", "u", "d", "f", "l", "a", "r", "e", " ", "p", "a", "g", "e", "s">>, name |-> <<"P", "a", "g", "e", "s">>],
     [key |-> <<"b", "i", "l", "l", "i", "n", "g">>, name |-> <<"B", "i", "l", "l", "i", "n", "g">>],
     [key |-> <<"a", "p", "i">>, name |-> <<"A", "P", "I">>],
     [key |-> <<"d", "o", "c", "u", "m", "e", "n", "t", "a", "t", "i", "o", "n">>, name |-> <<"D", "o", "c", "u", "m", "e", "n", "t", "a", "t", "i", "o", "n">>],
     [key |-> <<"d", "o", "c", "s">>, name |-> <<"D", "o", "c", "u", "m", "e", "n", "t", "a", "t", "i", "o", "n">>] >>

\* productMap[normalized] || productStr.trim()
standardizeProductName(productStr) ==
  IF ~Truthy(productStr) THEN Null
  ELSE LET normalized == trim(toLowerCase(productStr.c))
           known == {k \in 1..Len(productMap) : productMap[k].key = normalized}
       IN IF known # {}
          THEN Text(productMap[CHOOSE k \in known : TRUE].name)
          ELSE Text(trim(productStr.c))

\* str.split(delimiter), for a delimiter of one character
RECURSIVE splitOn(_, _)
splitOn(s, delimiter) ==
  IF \E k \in 1..Len(s) : s[k] = delimiter
  THEN LET at == CHOOSE k \in 1..Len(s) : s[k] = delimiter /\ \A j \in 1..(k - 1) : s[j] # delimiter
       IN <<SubSeq(s, 1, at - 1)>> \o splitOn(SubSeq(s, at + 1, Len(s)), delimiter)
  ELSE <<s>>

\* str.split(delimiter).map(s => s.trim()).filter(Boolean)
parseDelimitedString(str, delimiter) ==
  IF ~Truthy(str) THEN <<>>
  ELSE LET pieces == splitOn(str.c, delimiter)
           trimmed == [k \in 1..Len(pieces) |-> trim(pieces[k])]
           NotEmpty(piece) == piece # <<>>
       IN SelectSeq(trimmed, NotEmpty)

\* for (const label of labels) { ... if (product) return product; }
RECURSIVE inferProductFromLabels(_)
inferProductFromLabels(labels) ==
  IF labels = <<>> THEN Null
  ELSE LET product == standardizeProductName(Text(labels[1]))
       IN IF Truthy(product) THEN product ELSE inferProductFromLabels(Tail(labels))

\* for (const tag of tags) { ... if (product) return product; }
RECURSIVE inferProductFromTags(_)
inferProductFromTags(tags) ==
  IF tags = <<>> THEN Null
  ELSE LET product == standardizeProductName(Text(tags[1]))
       IN IF Truthy(product) THEN product ELSE inferProductFromTags(Tail(tags))

inferProductFromText(text) ==
  LET lowerText == toLowerCase(text)
  IN IF includes(lowerText, <<"w", "o", "r", "k", "e", "r">>) /\ includes(lowerText, <<"a", "i">>) THEN Text(<<"W", "o", "r", "k", "e", "r", "s", " ", "A", "I">>)
     ELSE IF includes(lowerText, <<"w", "o", "r", "k", "e", "r">>) THEN Text(<<"W", "o", "r", "k", "e", "r", "s">>)
     ELSE IF includes(lowerText, <<"d", "1">>) THEN Text(<<"D", "1", " ", "D", "a", "t", "a", "b", "a", "s", "e">>)
     ELSE IF includes(lowerText, <<"w", "o", "r", "k", "f", "l", "o", "w">>) THEN Text(<<"W", "o", "r", "k", "f", "l", "o", "w", "s">>)
     ELSE IF includes(lowerText, <<"r", "2">>) THEN Text(<<"R", "2", " ", "S", "t", "o", "r", "a", "g", "e">>)
     ELSE IF includes(lowerText, <<"k", "v">>) THEN Text(<<"K", "V", " ", "S", "t", "o", "r", "a", "g", "e">>)
     ELSE IF includes(lowerText, <<"p", "a", "g", "e", "s">>) THEN Text(<<"P", "a", "g", "e", "s">>)
     ELSE IF includes(lowerText, <<"b", "i", "l", "l", "i", "n", "g">>) \/ includes(lowerText, <<"c", "o", "s", "t">>) THEN Text(<<"B", "i", "l", "l", "i", "n", "g">>)
     ELSE IF includes(lowerText, <<"d", "o", "c", "u", "m", "e", "n", "t">>) \/ includes(lowerText, <<"d", "o", "c", "s">>) THEN Text(<<"D", "o", "c", "u", "m", "e", "n", "t", "a", "t", "i", "o", "n">>)
     ELSE IF includes(lowerText, <<"a", "p", "i">>) THEN Text(<<"A", "P", "I">>)
     ELSE Null

\* row[column] || ''
CellOrEmpty(cell) == OrElse(cell, Text(<<>>)).c

\* product_area of the record of each processor; the cells of the row are
\* 'Product Area' (area), 'Labels', 'Tags', 'Title' or 'Subject' (title) and
\* the message, tweet or body (message)
product_area(source, row) ==
  CASE source = "Support" -> standardizeProductName(row.area)
    [] source = "Discord" -> inferProductFromText(CellOrEmpty(row.message))
    [] source = "GitHub" ->
         OrElse(inferProductFromLabels(parseDelimitedString(row.labels, ",")),
                inferProductFromText(CellOrEmpty(row.title)))
    [] source = "Email" ->
         inferProductFromText(CellOrEmpty(row.title) \o <<" ">> \o CellOrEmpty(row.message))
    [] source = "Twitter" -> inferProductFromText(CellOrEmpty(row.message))
    [] source = "Forum" -> inferProductFromTags(parseDelimitedString(row.tags, ";"))

ProductRows ==
  [ area : {Undefined, Text(<<" ", "W", "o", "r", "k", "e", "r", "s", "-", "A", "I", " ">>), Text(<<"Z", "a", "r", "a", "z">>)},
    labels : {Undefined, Text(<<" ", ",", " ">>), Text(<<"D", "1", ",", "b", "u", "g">>), Text(<<"b", "u", "g", ",", " ", "d", "1">>)},
    tags : {Undefined, Text(<<"k", "v", ";", "h", "e", "l", "p">>), Text(<<"h", "e", "l", "p", ";", "k", "v">>)},
    title : {Undefined, Text(<<"R", "2", " ", "u", "p", "l", "o", "a", "d">>)},
    message : {Undefined, Text(<<"M", "y", " ", "W", "o", "r", "k", "e", "r", " ", "A", "I", " ", "d", "o", "c", "s">>), Text(<<"h", "e", "l", "l", "o">>)} ]

ProcessProductArea(source, row) ==
  /\ Called("product_area", [source |-> source, row |-> row])
  /\ fnResult' = product_area(source, row)

(***************************************************************************)
(* cleanText on its own, also for texts above the cap.                     *)
(***************************************************************************)
\* a text of one character more than the cap, without whitespace
OverCapText == [k \in 1..(MaxTextLength + 1) |-> "a"]

\* the same text with a space as its character at the cap
OverCapTextSpaceAtCap == [OverCapText EXCEPT ![MaxTextLength] = " "]

CleanedTexts ==
  { Undefined, Text(<<>>), Text(Title), Text(Blank), Text(BugReport),
    Text(<<"a", "\t", "\n", " ", "b">>), Text(LongFiller),
    Text(OverCapText), Text(OverCapTextSpaceAtCap) }

CleanText(t) ==
  /\ Called("cleanText", [text |-> t])
  /\ fnResult' = Text(cleanText(t))

FunctionsNext ==
  \/ \E t \in CleanedTexts : CleanText(t)
  \/ \E k \in 1..Len(KnownSources), row \in ProductRows : ProcessProductArea(KnownSources[k], row)
  \/ \E t \in ScoredTexts : InferSentiment(t)
  \/ \E t \in ScoredTexts : InferUrgency(t)
  \/ \E t \in ScoredTexts : InferUrgencyFromText(t)
  \/ \E u \in ScoredUrgencies, t \in ScoredTexts, tier \in ScoredTiers :
       CalculateUrgencyScore(u, t, tier)
  \/ \E tier \in ScoredTiers, t \in ScoredTexts, metrics \in ScoredMetrics :
       CalculateValueScore(tier, t, metrics)
  \/ \E raw \in RawDates : StandardizeDate(raw)
  \/ \E source \in DOMAIN DateColumn, row \in DatedRows, now \in IngestionTimes :
       ProcessCreatedDate(source, row, now)

FunctionsInit == SearchIdle /\ AnalyzeIdle /\ UploadIdle /\ FunctionsIdle /\ BatchIdle

SpecFunctions == FunctionsInit /\ [][FunctionsNext]_vars

(***************************************************************************)
(* Properties of the Keyword Inference Engine and the score calculators.   *)
(***************************************************************************)
CalledFn(fn) == fnCall.fn = fn

\* the text of the call, in lower case
CalledText == toLowerCase(fnCall.args.text)

KeywordsIn(text, keywords) == Cardinality({w \in keywords : includes(text, w)})

\* positive and negative keywords are present, in equal number
EqualPositiveAndNegative ==
  /\ CalledFn("inferSentiment")
  /\ KeywordsIn(CalledText, positiveWords) > 0
  /\ KeywordsIn(CalledText, positiveWords) = KeywordsIn(CalledText, negativeWords)

\* the conditions inferSentiment tests before it compares the counts
FrustrationIndicated ==
  \/ KeywordsIn(CalledText, frustratedWords) > 0
  \/ KeywordsIn(CalledText, negativeWords) > 0 /\ includes(CalledText, <<"b", "u", "t">>)

UrgencyByPriority(text, critical, high, low) ==
  CASE includesAny(text, critical) -> {"Critical"}
    [] ~includesAny(text, critical) /\ includesAny(text, high) /\ includesAny(text, low) -> {"High"}
    [] ~includesAny(text, critical \cup high \cup low) -> {"Medium"}
    [] OTHER -> Urgencies

\* C17: in both urgency inferences a text with a critical keyword or "!!!" is
\* Critical whatever else it contains, a text with a high-severity and a
\* low-priority keyword and no critical one is High, and a text with none of
\* the keywords is Medium.
CriticalCheckedFirst ==
  /\ CalledFn("inferUrgencyFromText") =>
       \E u \in UrgencyByPriority(CalledText, CriticalTextKeywords, HighTextKeywords, LowTextKeywords) :
         fnResult = Str(u)
  /\ CalledFn("inferUrgency") =>
       \E u \in UrgencyByPriority(CalledText, criticalWords \cup {kw_bangs}, highWords, lowWords) :
         fnResult = Str(u)

\* a text with a low-priority keyword and a critical one was inferred Critical
CriticalWithLowKeyword ==
  /\ CalledFn("inferUrgencyFromText")
  /\ includesAny(CalledText, LowTextKeywords)
  /\ includesAny(CalledText, CriticalTextKeywords)
  /\ fnResult = Str("Critical")

\* a text with a high-severity and a low-priority keyword was inferred High
HighWithLowKeyword ==
  /\ CalledFn("inferUrgency")
  /\ includesAny(CalledText, lowWords)
  /\ includesAny(CalledText, highWords)
  /\ fnResult = Str("High")

Min(a, b) == IF a < b THEN a ELSE b

\* +n when the text mentions one of the keywords
Mention(keywords, n) == IF includesAny(CalledText, keywords) THEN n ELSE 0

\* the base of C18 for the category of the call; a category outside the table
\* has the base of Medium
UrgencyBaseOfCall ==
  LET urgency == fnCall.args.urgency
  IN IF urgency \in {Str("Critical"), Str("High"), Str("Medium"), Str("Low")}
     THEN [Critical |-> 10, High |-> 8, Medium |-> 5, Low |-> 3][urgency.s]
     ELSE 5

UrgencyKeywordAdjustments ==
  Mention({<<"u", "r", "g", "e", "n", "t">>, <<"c", "r", "i", "t", "i", "c", "a", "l">>}, 2) + Mention({<<"b", "l", "o", "c", "k", "i", "n", "g">>, <<"c", "a", "n", "'", "t">>}, 1)
    + Mention({<<"p", "r", "o", "d", "u", "c", "t", "i", "o", "n">>, <<"o", "u", "t", "a", "g", "e">>}, 2) + Mention({<<"d", "a", "t", "a", " ", "l", "o", "s", "s">>, <<"s", "e", "c", "u", "r", "i", "t", "y">>}, 2)

EnterpriseBoost == IF fnCall.args.tier = Str("Enterprise") THEN 1 ELSE 0

\* C18: for every urgency category, known or not, every text and every tier,
\* calculateUrgencyScore is an integer of 1..10 equal to
\* min(10, base + keyword adjustments + tier boost), and is never lower than
\* the score of the same category with empty text and no boost.
UrgencyScoreIsClampedSum ==
  CalledFn("calculateUrgencyScore") =>
    /\ fnResult.t = "num"
    /\ fnResult.n \in MinScore..MaxScore
    /\ fnResult.n = Min(10, UrgencyBaseOfCall + UrgencyKeywordAdjustments + EnterpriseBoost)
    /\ fnResult.n >= calculateUrgencyScore(fnCall.args.urgency, <<>>, Str("Free"))

\* a Critical item of an Enterprise customer whose text has keywords: the sum
\* is above 10 and the score is 10
BoostedCriticalScored ==
  /\ CalledFn("calculateUrgencyScore")
  /\ fnCall.args.urgency = Str("Critical")
  /\ UrgencyKeywordAdjustments + EnterpriseBoost > 2
  /\ fnResult = Num(10)

\* an unknown category with a boosted text scores above the base of Medium
UnknownCategoryBoosted ==
  /\ CalledFn("calculateUrgencyScore")
  /\ fnCall.args.urgency = Str("Blocker")
  /\ fnResult.n > 5

\* the base of C19 for the tier of the call; a tier outside the table has 5
TierBaseOfCall ==
  LET tier == fnCall.args.tier
  IN IF tier \in {Str("Enterprise"), Str("Pro"), Str("Free")}
     THEN [Enterprise |-> 9, Pro |-> 7, Free |-> 4][tier.s]
     ELSE 5

\* likes + 2*upvotes + comments of the call, an absent metric counting 0
WeightedEngagement ==
  LET metrics == fnCall.args.metrics
      Of(f) == IF metrics[f] = Undefined THEN 0 ELSE metrics[f].n
  IN Of("likes") + 2 * Of("upvotes") + Of("comments")

EngagementBoostOfCall ==
  IF WeightedEngagement > 50 THEN 2 ELSE IF WeightedEngagement > 20 THEN 1 ELSE 0

ValueKeywordBoosts ==
  Mention({<<"r", "e", "v", "e", "n", "u", "e">>, <<"c", "u", "s", "t", "o", "m", "e", "r">>}, 1) + Mention({<<"c", "o", "m", "p", "l", "i", "a", "n", "c", "e">>, <<"s", "e", "c", "u", "r", "i", "t", "y">>}, 1)

\* C19: for every tier, text and engagement metrics, calculateValueScore is
\* an integer of 1..10 equal to base + engagement boost + keyword boosts
\* clamped to 1..10, the engagement boost being +2 above 50, +1 above 20.
ValueScoreIsClampedSum ==
  CalledFn("calculateValueScore") =>
    LET sum == TierBaseOfCall + EngagementBoostOfCall + ValueKeywordBoosts
    IN /\ fnResult.t = "num"
       /\ fnResult.n \in MinScore..MaxScore
       /\ fnResult.n = Min(10, IF sum < 1 THEN 1 ELSE sum)

\* an engagement of exactly 20 gave no boost: Free, two keyword mentions, 6
ThresholdEngagementScored ==
  /\ CalledFn("calculateValueScore")
  /\ WeightedEngagement = 20
  /\ fnCall.args.tier = Str("Free")
  /\ ValueKeywordBoosts = 2
  /\ fnResult = Num(6)

\* an Enterprise item with engagement above 50 and keyword mentions is clamped
ClampedValueScored ==
  /\ CalledFn("calculateValueScore")
  /\ fnCall.args.tier = Str("Enterprise")
  /\ WeightedEngagement > 50
  /\ ValueKeywordBoosts > 0
  /\ fnResult = Num(10)

(***************************************************************************)
(* batchAnalyzeFeedback.  Each item's analyzeFeedback call runs up to its  *)
(* await inside batch.map, so the analyses of a chunk start together; they *)
(* settle one by one while batchAnalyzeFeedback is suspended in            *)
(* await Promise.all.  The items carry a feedback_text (NOT NULL in the    *)
(* store), for which analyzeFeedback never rejects.                        *)
(***************************************************************************)
MaxBatchItems == 4    \* a batch has at most this many items
MaxBatchSize == 2     \* an explicit batchSize is at most this

DefaultBatchSize == 5 \* batchSize = 5
PauseDelay == 100     \* setTimeout(resolve, 100)

NotStarted == [st |-> "notStarted"]

\* the indexes (from 1) of feedbackItems.slice(i, i + size)
Chunk(items, i, size) == { j \in 1..Len(items) : i < j /\ j <= i + size }

\* mutant of MoreChunks: the last chunk counts as followed by one
MoreChunksOrLast(items, i, size) == i + size <= Len(items)

\* i + batchSize < feedbackItems.length
MoreChunks(items, i, size) == i + size < Len(items)

\* agent.analyzeFeedback(item.feedback_text, ...), from the outcomes of its
\* two ai.run calls
analyzeFeedback(item, themes, sentiment) ==
  CombineAnalysis(item.feedback_text,
                  extractThemes(item.feedback_text, themes),
                  analyzeSentimentAndUrgency(item.feedback_text, sentiment))

\* batch.map(item => agent.analyzeFeedback(...)) on the chunk at i, then
\* await Promise.all
StartChunk(items, i, size, promises) ==
  /\ analyses' = [j \in 1..Len(items) |-> IF j \in Chunk(items, i, size) THEN Pending
                                         ELSE promises[j]]
  /\ batchPc' = "awaitAll"

\* the items, the batch sizes and the ai.run outcomes of the model
BatchItems ==
  { [feedback_text |-> <<"L","o","v","e">>, customer_tier |-> Str("Free"), source |-> Str("Twitter")],
    [feedback_text |-> <<"b","r","o","k","e","n">>, customer_tier |-> Str("Enterprise"),
     source |-> Str("Support")] }

BatchLists == UNION { [1..n -> BatchItems] : n \in 0..MaxBatchItems }

BatchSizes == { Num(n) : n \in 1..MaxBatchSize } \cup {Undefined}

BatchThemeOutcomes ==
  { Throws,
    Returns([shape |-> "object", form |-> "json",
             json |-> [themes |-> List(<<"Data Loss">>), confidence |-> Num(900)]]) }

BatchSentimentOutcomes ==
  { Throws,
    Returns([shape |-> "object", form |-> "json",
             json |-> [sentiment |-> Str("Negative"), urgency |-> Str("High"),
                       summary |-> Str("AI summary"), valueScore |-> Num(8),
                       confidence |-> Num(900)]]) }

\* the call, up to the first await: of Promise.all of the first chunk, or
\* the return of [] for no items
BatchAnalyzeFeedback(items, size) ==
  /\ batchPc = "idle"
  /\ feedbackItems' = items
  /\ batchSize' = (IF size = Undefined THEN DefaultBatchSize ELSE size.n)
  /\ batchIndex' = 0
  /\ batchOutput' = <<>>
  /\ IF 0 < Len(items)
     THEN /\ StartChunk(items, 0, batchSize', [j \in 1..Len(items) |-> NotStarted])
          /\ UNCHANGED batchReturned
     ELSE /\ analyses' = <<>>
          /\ batchPc' = "returned"
          /\ batchReturned' = List(<<>>)
  /\ UNCHANGED <<pauseTimer, pausesElapsed, searchVars, analyzeVars, uploadVars, functionVars>>

\* the analysis of item j settles
AnalysisSettles(j, themes, sentiment) ==
  /\ j \in DOMAIN analyses
  /\ analyses[j] = Pending
  /\ analyses' = [analyses EXCEPT ![j] =
                    Settled(<<themes, sentiment>>,
                            Fulfilled(analyzeFeedback(feedbackItems[j], themes, sentiment)))]
  /\ UNCHANGED <<batchPc, feedbackItems, batchSize, batchIndex, batchOutput, pauseTimer,
                 pausesElapsed, batchReturned, searchVars, analyzeVars, uploadVars, functionVars>>

\* Promise.all of the chunk fulfils: results.push(...batchResults), then the
\* pause when more items follow, or the return
ChunkCollected ==
  /\ batchPc = "awaitAll"
  /\ LET chunk == Chunk(feedbackItems, batchIndex, batchSize)
         batchResults == [k \in 1..Cardinality(chunk) |-> analyses[batchIndex + k].result.v]
     IN /\ \A j \in chunk : analyses[j].st = "settled"
        /\ batchOutput' = batchOutput \o batchResults
        /\ IF MoreChunks(feedbackItems, batchIndex, batchSize)
           THEN /\ pauseTimer' = Num(PauseDelay)
                /\ batchPc' = "awaitPause"
                /\ UNCHANGED batchReturned
           ELSE /\ batchPc' = "returned"
                /\ batchReturned' = List(batchOutput')
                /\ UNCHANGED pauseTimer
  /\ UNCHANGED <<feedbackItems, batchSize, batchIndex, analyses, pausesElapsed,
                 searchVars, analyzeVars, uploadVars, functionVars>>

\* the pauses are counted up to this number (more than a batch whose index
\* advances can take)
MaxPausesCounted == MaxBatchItems + 1

\* the timer fires: i += batchSize, and the next chunk starts when i is
\* below feedbackItems.length
PauseElapses ==
  /\ batchPc = "awaitPause"
  /\ pauseTimer' = Null
  /\ pausesElapsed' = (IF pausesElapsed < MaxPausesCounted THEN pausesElapsed + 1 ELSE pausesElapsed)
  /\ batchIndex' = batchIndex + batchSize
  /\ IF batchIndex' < Len(feedbackItems)
     THEN /\ StartChunk(feedbackItems, batchIndex', batchSize, analyses)
          /\ UNCHANGED batchReturned
     ELSE /\ batchPc' = "returned"
          /\ batchReturned' = List(batchOutput)
          /\ UNCHANGED analyses
  /\ UNCHANGED <<feedbackItems, batchSize, batchOutput, searchVars, analyzeVars, uploadVars,
                 functionVars>>

BatchNext ==
  \/ \E items \in BatchLists, size \in BatchSizes : BatchAnalyzeFeedback(items, size)
  \/ \E j \in 1..(MaxBatchItems + 1), themes \in BatchThemeOutcomes,
        sentiment \in BatchSentimentOutcomes : AnalysisSettles(j, themes, sentiment)
  \/ ChunkCollected
  \/ PauseElapses

BatchInit == SearchIdle /\ AnalyzeIdle /\ UploadIdle /\ FunctionsIdle /\ BatchIdle

SpecBatch == BatchInit /\ [][BatchNext]_vars

(***************************************************************************)
(* Properties of batchAnalyzeFeedback.                                     *)
(***************************************************************************)
\* the number, from 0, of the chunk of item j
ChunkOf(j) == (j - 1) \div batchSize

ChunkCount == (Len(feedbackItems) + batchSize - 1) \div batchSize

AnalysisStarted(j) == analyses[j] # NotStarted

AnalysisCompleted(j) == analyses[j].st = "settled"

InFlight == { j \in DOMAIN analyses : analyses[j] = Pending }

ChunksStarted == { ChunkOf(j) : j \in { h \in DOMAIN analyses : AnalysisStarted(h) } }

BatchCalled == batchPc # "idle" /\ Len(feedbackItems) > 0

\* C20: batchAnalyzeFeedback processes the items in consecutive chunks of
\* batchSize: an analysis of chunk k+1 has started only when every analysis
\* of chunk k has completed and the pause of 100 ms after chunk k has
\* elapsed; at most batchSize analyses are in flight; a pause is taken only
\* while items remain to be started, one per started chunk but the first,
\* and none after the last chunk.
ChunksAreSequential ==
  BatchCalled =>
    /\ \A j \in DOMAIN analyses :
         AnalysisStarted(j) =>
           /\ \A h \in DOMAIN analyses :
                (ChunkOf(j) > ChunkOf(h) => AnalysisCompleted(h))
                /\ (ChunkOf(j) = ChunkOf(h) => AnalysisStarted(h))
           /\ pausesElapsed >= ChunkOf(j)
    /\ Cardinality(InFlight) <= batchSize
    /\ pausesElapsed = Cardinality(ChunksStarted) - 1
    /\ pauseTimer # Null =>
         /\ pauseTimer = Num(PauseDelay)
         /\ InFlight = {}
         /\ \E j \in DOMAIN analyses : ~AnalysisStarted(j)
    /\ batchPc = "returned" =>
         /\ pauseTimer = Null
         /\ pausesElapsed = ChunkCount - 1
         /\ \A j \in DOMAIN analyses : AnalysisCompleted(j)

\* three items in chunks of two: two analyses in flight, then a pause, then
\* the last with no pause after it
LastChunkReturnedWithoutPause ==
  /\ batchPc = "returned"
  /\ Len(feedbackItems) = 3
  /\ batchSize = 2
  /\ pausesElapsed = 1
  /\ Len(batchReturned.l) = 3

\* a full chunk in flight after two pauses
ThirdChunkInFlight ==
  /\ batchPc = "awaitAll"
  /\ pausesElapsed = 2
  /\ Cardinality(InFlight) = batchSize

(***************************************************************************)
(* analyzeFeedback and processQuery of one worker, side by side: the       *)
(* requests the core sends to the text-completion service.                 *)
(***************************************************************************)
CoreTexts == { <<"L","o","v","e">>, <<"b","r","o","k","e","n">> }

\* ai.run throws, answers the JSON asked for, or answers JSON null
CoreThemeOutcomes ==
  BatchThemeOutcomes \cup
  { Returns([shape |-> "object", form |-> "jsonNull", json |-> Undefined]) }

CoreSentimentOutcomes ==
  BatchSentimentOutcomes \cup
  { Returns([shape |-> "object", form |-> "jsonNull", json |-> Undefined]) }

CoreStoreResults ==
  { Undefined, List(<<>>),
    List(<<[urgency |-> Str("Critical"), themes |-> List(<<"Data Loss">>)]>>),
    List(Padding \o <<[urgency |-> Str("High"), themes |-> Null]>>) }

CoreSummaryOutcomes ==
  { Throws,
    Returns([shape |-> "object", text |-> Str("Two critical billing issues need attention.")]),
    Returns([shape |-> "nullish", text |-> Undefined]) }

CoreNext ==
  \/ \E t \in CoreTexts : CallExtractThemes(t)
  \/ CallAnalyzeSentiment
  \/ \E o \in CoreThemeOutcomes : ThemesSettle(o)
  \/ \E o \in CoreSentimentOutcomes : SentimentSettle(o)
  \/ ReturnAnalysis
  \/ \E q \in SummaryQueries : ParseQueryIntent(q)
  \/ GenerateSQLStep
  \/ \E r \in CoreStoreResults : ExecuteQueryReturns(r)
  \/ ExecuteQueryThrows
  \/ \E o \in CoreSummaryOutcomes : FormatResponseSettles(o)

CoreInit == SearchIdle /\ AnalyzeIdle /\ UploadIdle /\ FunctionsIdle /\ BatchIdle

SpecCore == CoreInit /\ [][CoreNext]_vars

RequestFailed(call) == call.st = "settled" /\ call.outcome = Throws

\* C21: the core performs no retries: analyzeFeedback sends exactly two
\* requests, one per sub-call, and formatResponse at most one, whatever they
\* return; a failed request is followed by the deterministic fallback of its
\* sub-call and by no further request.
NoRetries ==
  /\ aiRequests \in { <<>>, <<"themes">>, <<"themes", "sentiment">> }
  /\ anPc \in {"awaiting", "done"} => aiRequests = <<"themes", "sentiment">>
  /\ Len(summaryRequests) <= 1
  /\ searchPc = "summarizing" => Len(summaryRequests) = 1
  /\ RequestFailed(themeCall) =>
       themeCall.result = Fulfilled([ themes |-> List(<<inferThemeFromKeywords(feedbackText)>>),
                                      confidence |-> Num(FallbackConfidence) ])
  /\ RequestFailed(sentCall) =>
       sentCall.result = Fulfilled(getFallbackSentimentAnalysis(feedbackText))
  /\ RequestFailed(summaryCall) =>
       /\ searchPc = "returned"
       /\ searchResult.response = createFallbackResponse(results.l)

\* all three requests failed: three requests were sent in all
EveryRequestFailedOnce ==
  /\ anPc = "done"
  /\ RequestFailed(themeCall) /\ RequestFailed(sentCall) /\ RequestFailed(summaryCall)
  /\ Len(aiRequests) = 2
  /\ Len(summaryRequests) = 1

\* YYYY-MM-DDTHH:mm:ss.sssZ, of a month 01 to 12 and a day 01 to 31
IsIso8601(s) ==
  /\ Len(s) = 24
  /\ \A i \in {1, 2, 3, 4, 6, 7, 9, 10, 12, 13, 15, 16, 18, 19, 21, 22, 23} : IsDigit(s[i])
  /\ s[5] = "-" /\ s[8] = "-" /\ s[11] = "T" /\ s[14] = ":" /\ s[17] = ":" /\ s[20] = "."
  /\ s[24] = "Z"
  /\ parseInt(SubSeq(s, 6, 7)) \in 1..12
  /\ parseInt(SubSeq(s, 9, 10)) \in 1..31
  /\ parseInt(SubSeq(s, 12, 13)) <= 23

IsIsoText(v) == v.t = "text" /\ IsIso8601(v.c)

\* the raw date of the row of the call
RawDateOfCall == fnCall.args.row[DateColumn[fnCall.args.source]]

\* an empty cell, or a text without any digit: no date can be made of it
NoDateIn(raw) ==
  \/ raw.t \in {"undefined", "null"}
  \/ raw = Num(0)
  \/ raw.t = "text" /\ (raw.c = <<"N", "U", "L", "L">> \/ \A i \in 1..Len(raw.c) : ~IsDigit(raw.c[i]))

\* C22: standardizeDate returns null or an ISO-8601 string for every input and
\* never throws; the record a processor makes of a row has a created_date
\* that is an ISO-8601 string, the ingestion time when the raw date is empty
\* or cannot be parsed.
DatesAreTotal ==
  /\ CalledFn("standardizeDate") =>
       /\ fnResult = Null \/ IsIsoText(fnResult)
       /\ NoDateIn(fnCall.args.dateStr) => fnResult = Null
  /\ CalledFn("created_date") =>
       /\ IsIsoText(fnResult)
       /\ NoDateIn(RawDateOfCall) => fnResult = Text(toISOString(fnCall.args.now))
       /\ fnResult # Text(toISOString(fnCall.args.now)) => fnResult \in standardizeDate(RawDateOfCall)

\* the serial number 45000 is 2023-03-15, counted from 1899-12-30
SerialDateStandardized ==
  /\ CalledFn("standardizeDate")
  /\ fnCall.args.dateStr = Text(<<"4", "5", "0", "0", "0">>)
  /\ fnResult = Text(<<"2", "0", "2", "3", "-", "0", "3", "-", "1", "5", "T", "0", "0", ":", "0", "0", ":", "0", "0", ".", "0", "0", "0", "Z">>)

\* a malformed raw date: the record has the ingestion time
MalformedDateDefaulted ==
  /\ CalledFn("created_date")
  /\ RawDateOfCall = Text(<<"2", "0", "2", "4", "-", "1", "3", "-", "4", "5">>)
  /\ fnResult = Text(toISOString(fnCall.args.now))

(***************************************************************************)
(* Properties of processQuery: its steps and its external calls.           *)
(***************************************************************************)
\* a statement that reads: the SELECT of generateSQL, with nothing written
\* into its text but the sort column of the parser and a limit
IsRead(statement) ==
  /\ statement.sql[1] = SelectHead
  /\ \A k \in InterpolatedAt(statement.sql) :
       \/ statement.sql[k].v = Str("urgency_score")
       \/ statement.sql[k].v.t = "num" /\ statement.sql[k].v.n \in 1..MaxLimit

\* the steps of processQuery, each with what has happened by then
QuerySteps ==
  /\ searchPc = "idle" =>
       intent = Undefined /\ sqlQuery = Undefined /\ storeStatements = <<>> /\ summaryRequests = <<>>
  /\ searchPc = "parsed" =>
       /\ intent = parseIntentWithKeywords(userQuery)
       /\ sqlQuery = Undefined /\ storeStatements = <<>> /\ summaryRequests = <<>>
  /\ searchPc = "built" =>
       /\ sqlQuery = generateSQL(intent)
       /\ results = Undefined /\ storeStatements = <<>> /\ summaryRequests = <<>>
  /\ searchPc \in {"summarizing", "returned"} =>
       /\ storeStatements = <<generateSQL(parseIntentWithKeywords(userQuery))>>
       /\ IsRead(storeStatements[1])
  /\ searchPc = "summarizing" => Len(summaryRequests) = 1
  /\ Len(summaryRequests) <= 1
  /\ Len(summaryRequests) = 1 => Truthy(results) /\ Len(results.l) >= 1

\* the order of the steps
QueryStepOrder ==
  searchPc' # searchPc =>
    <<searchPc, searchPc'>> \in
      { <<"idle", "parsed">>, <<"parsed", "built">>, <<"built", "summarizing">>,
        <<"built", "returned">>, <<"summarizing", "returned">> }

\* C23: in every processQuery run the steps go parse intent, build SQL,
\* execute on the store, format the response; parsing makes no external
\* call; the store receives one statement at most, a SELECT, and its tables
\* are unchanged; the text-completion service is called at most once, and
\* only after the store returned at least one row.
QueryStepsInOrder ==
  /\ []QuerySteps
  /\ [][QueryStepOrder /\ UNCHANGED <<users, feedback_master, sentiment_analysis>>]_vars

\* a run that went through the four steps, with a filtered statement
FourStepsTaken ==
  /\ searchPc = "returned"
  /\ Len(storeStatements) = 1 /\ storeStatements[1].params # <<>>
  /\ Len(summaryRequests) = 1
  /\ summaryCall.st = "settled"

(***************************************************************************)
(* The shape of the compiled query.                                        *)
(***************************************************************************)
\* the text that opens the condition of each filter
ConditionHead ==
  [ urgency |-> Sql("sa.urgency IN ("), sentiment |-> Sql("sa.sentiment IN ("),
    product |-> Sql("pa.product_name = "), customerTier |-> Sql("u.customer_tier = "),
    theme |-> Sql("t.theme_name LIKE ") ]

\* a filter that is present and not empty
FilterGiven(v) ==
  CASE v.t = "list" -> Len(v.l) > 0
    [] v.t = "str" -> v.s # ""
    [] OTHER -> FALSE

PositionsOf(sql, piece) == { k \in 1..Len(sql) : sql[k] = piece }

\* C24: the compiled query has a condition for a filter exactly when the
\* filter is present and not empty; every condition is introduced by AND;
\* after them come GROUP BY feedback id, ORDER BY the sort key DESC then
\* the created date DESC, and LIMIT, in this order; the sort key is
\* urgency_score and the limit 20 when the intent gives none.
CompiledQueryShape ==
  Compiled =>
    LET sql == sqlQuery.sql
        n == Len(sql)
        heads == UNION { PositionsOf(sql, ConditionHead[f]) : f \in DOMAIN ConditionHead }
    IN /\ sql[1] = SelectHead
       /\ \A f \in DOMAIN ConditionHead :
            Cardinality(PositionsOf(sql, ConditionHead[f])) = (IF FilterGiven(intent[f]) THEN 1 ELSE 0)
       /\ \A k \in heads : sql[k - 1] = Sql(" AND ")
       /\ Cardinality(PositionsOf(sql, Sql(" AND "))) = Cardinality(heads)
       /\ \A k \in heads : k < n - 5
       /\ SubSeq(sql, n - 5, n) =
            << Sql(" GROUP BY fm.feedback_id"), Sql(" ORDER BY "),
               Interp(IF Truthy(intent.sortBy) THEN intent.sortBy ELSE Str("urgency_score")),
               Sql(" DESC, fm.created_date DESC"), Sql(" LIMIT "),
               Interp(IF Truthy(intent.limit) THEN intent.limit ELSE Num(20)) >>

\* an intent with an empty urgency list, an empty product, two filters and
\* neither sort key nor limit
DefaultsAndEmptyFiltersCompiled ==
  /\ searchPc = "compiled"
  /\ intent.urgency = List(<<>>) /\ intent.product = Str("")
  /\ FilterGiven(intent.sentiment) /\ FilterGiven(intent.theme)
  /\ intent.sortBy = Undefined /\ intent.limit = Undefined
  /\ Len(sqlQuery.params) = 2

\* C25: an upload is all-or-nothing: when a store call fails while the rows
\* are processed, the store is as it was before the upload (empty here) and
\* no row of the upload remains in users, feedback_master or
\* sentiment_analysis.
UploadIsAllOrNothing ==
  (upPc = "threw" /\ upResponse = Uncaught("store call failed")) =>
    /\ users = <<>>
    /\ feedback_master = <<>>
    /\ sentiment_analysis = <<>>

\* C26: the urgency inference of the data-cleaning module and the fallback
\* urgency inference of the AI adapter are the same function: the category
\* either returns for a text is the category the other returns for it.
UrgencyInferencesAgree ==
  (CalledFn("inferUrgency") \/ CalledFn("inferUrgencyFromText")) =>
    /\ fnResult = Str(inferUrgency(fnCall.args.text))
    /\ fnResult = Str(inferUrgencyFromText(fnCall.args.text))

CanonicalProductNames ==
  { <<"W", "o", "r", "k", "e", "r", "s">>, <<"W", "o", "r", "k", "e", "r", "s", " ", "A", "I">>, <<"D", "1", " ", "D", "a", "t", "a", "b", "a", "s", "e">>, <<"W", "o", "r", "k", "f", "l", "o", "w", "s">>, <<"R", "2", " ", "S", "t", "o", "r", "a", "g", "e">>,
    <<"K", "V", " ", "S", "t", "o", "r", "a", "g", "e">>, <<"P", "a", "g", "e", "s">>, <<"B", "i", "l", "l", "i", "n", "g">>, <<"A", "P", "I">>, <<"D", "o", "c", "u", "m", "e", "n", "t", "a", "t", "i", "o", "n">> }

\* C27: the product_area of the record a processor makes of a row is null or
\* one of the ten canonical product names: a product field, label or tag
\* that is not a known synonym never becomes the product area.
ProductAreaIsCanonical ==
  CalledFn("product_area") =>
    \/ fnResult = Null
    \/ fnResult.t = "text" /\ fnResult.c \in CanonicalProductNames

\* C28: cleanText is idempotent: cleaning a cleaned text gives the cleaned
\* text again, also for a text longer than the cap.
CleanTextIsIdempotent ==
  CalledFn("cleanText") => cleanText(fnResult) = fnResult.c

\* every digit of the text is the digit of a product name, "d1" or "r2"
OnlyProductDigits(s) ==
  /\ \E k \in 1..Len(s) : IsDigit(s[k])
  /\ \A k \in 1..Len(s) :
       IsDigit(s[k]) =>
         /\ k > 1
         /\ <<s[k - 1], s[k]>> \in {<<"d", "1">>, <<"r", "2">>}

\* C29: for a query without a listing keyword whose only digits are those of
\* a product name ("d1", "r2"), the limit of the parsed intent is the
\* default 20.
ProductDigitsAreNoLimit ==
  (/\ searchPc = "parsed"
   /\ ~includesAny(toLowerCase(userQuery), ListingKeywords)
   /\ OnlyProductDigits(toLowerCase(userQuery)))
  => intent.limit = Num(20)

(***************************************************************************)
(* batchAnalyzeFeedback for every batchSize, under the scheduling of the   *)
(* event loop: a pending ai.run settles (by a result or a fault), a        *)
(* fulfilled Promise.all resumes the function, and a timer that was set    *)
(* fires.                                                                  *)
(***************************************************************************)
AnyBatchSizes == BatchSizes \cup {Num(0)}

AnalysisSettlesAny ==
  \E j \in 1..(MaxBatchItems + 1), themes \in BatchThemeOutcomes,
     sentiment \in BatchSentimentOutcomes : AnalysisSettles(j, themes, sentiment)

BatchFairNext ==
  \/ \E items \in BatchLists, size \in AnyBatchSizes : BatchAnalyzeFeedback(items, size)
  \/ \E j \in 1..(MaxBatchItems + 1), themes \in BatchThemeOutcomes,
        sentiment \in BatchSentimentOutcomes : AnalysisSettles(j, themes, sentiment)
  \/ ChunkCollected
  \/ PauseElapses

SpecBatchFair ==
  /\ BatchInit
  /\ [][BatchFairNext]_vars
  /\ WF_vars(AnalysisSettlesAny)
  /\ WF_vars(ChunkCollected)
  /\ WF_vars(PauseElapses)

\* the returned list has the analysis of item j at position j
OneAnalysisPerItemInOrder ==
  /\ batchReturned.t = "list"
  /\ Len(batchReturned.l) = Len(feedbackItems)
  /\ \A j \in 1..Len(feedbackItems) :
       /\ analyses[j].st = "settled"
       /\ batchReturned.l[j] =
            analyzeFeedback(feedbackItems[j], analyses[j].outcome[1], analyses[j].outcome[2])

\* C30: for every list of items and every batchSize, a call of
\* batchAnalyzeFeedback returns, and what it returns is one analysis per
\* item in the order of the items, whatever the order in which the analyses
\* of a chunk settle and whichever ai.run calls fail.
BatchTerminatesInOrder ==
  /\ (batchPc # "idle") ~> (batchPc = "returned")
  /\ [](batchPc = "returned" => OneAnalysisPerItemInOrder)

====
